---- MODULE Spec2Model ----
(***************************************************************************)
(* Webhook ingestion of the payment/subscription service.                  *)
(*                                                                         *)
(* The state is the relational store (webhook events, users, payments,     *)
(* subscriptions), the wall clock, and one record per concurrently running *)
(* processWebhook call.  Every await on the store in                       *)
(* WebhooksService.processWebhook is one atomic step of a handler; the     *)
(* synchronous code between two awaits belongs to the step that follows    *)
(* the first await.  The store is PostgreSQL behind Prisma: single         *)
(* statements are atomic, unique indexes reject a second row (P2002), and  *)
(* the statements of an interactive $transaction become visible together   *)
(* at commit or not at all.                                                *)
(*                                                                         *)
(* Time is counted in days (the code counts milliseconds; every duration   *)
(* it adds is a whole number of days).  Pass-through payload fields        *)
(* (currency, paymentMethod, provider, metadata) are not modelled.         *)
(***************************************************************************)
EXTENDS Integers, Sequences, FiniteSets, TLC

\* ------------------------------------------------------------------ bounds

\* Number of deliveries (processWebhook calls) in one behaviour of Spec.
MaxDeliveries == 2
\* Number of times the clock advances.
MaxTicks == 1
\* Days the clock advances per tick.
TickDays == 40
\* Number of concurrent callers of SubscriptionsService.
MaxCallers == 2

\* ------------------------------------------------------------------ inputs

NoEmail == ""

Payload(pid, etype, mail, amt, plan) ==
    [externalPaymentId |-> pid, eventType |-> etype, email |-> mail,
     amount |-> amt, planType |-> plan]

\* The events the sender delivers, each any number of times and in any
\* order.  A redelivery carries the payload of the first delivery.
Payloads ==
    { Payload("pay_1", "payment.success", "a@example.com", 999, "monthly"),
      Payload("pay_1", "payment.failed", "a@example.com", 999, "monthly"),
      Payload("pay_2", "payment.success", "a@example.com", 5000, "monthly"),
      Payload("pay_2", "payment.failed", "a@example.com", 0, "invalid_plan"),
      Payload("pay_3", "payment.success", NoEmail, 999, "yearly"),
      Payload("pay_4", "payment.success", NoEmail, 29999, "lifetime") }

Pids == { p.externalPaymentId : p \in Payloads }
EventTypes == { p.eventType : p \in Payloads }

Keys == { <<p.externalPaymentId, p.eventType>> : p \in Payloads }
Handlers == 1..MaxDeliveries

NoPayload ==
    [externalPaymentId |-> "", eventType |-> "", email |-> NoEmail,
     amount |-> 0, planType |-> ""]

\* What a call resolved to (success, isDuplicate, paymentId, subscriptionId)
\* or rejected with: error is the exception's message or Prisma code, target
\* the unique index a P2002 names.
NoResult ==
    [success |-> FALSE, isDuplicate |-> FALSE, paymentId |-> "",
     subscriptionId |-> "", error |-> "", target |-> ""]

\* The uncommitted writes of a transaction; at is the clock reading the
\* upsert computed its expiry from.
NoTx == [payment |-> <<>>, sub |-> <<>>, at |-> 0]

Never == -1

\* createPayment's caller: pc is its position, data its argument, value the
\* row it resolved to (<<>> before that), thrown the error it rejected with.
NoCall == [pc |-> "idle", data |-> <<>>, value |-> <<>>, thrown |-> ""]

Callers == 1..MaxCallers

\* A SubscriptionsService call: op is the method, pc its position, existing
\* the row its findUnique returned, at the value of its `now`, newExpiry its
\* newExpiryDate, value the row it resolved to, thrown the Prisma code it
\* rejected with.
NoSubCall ==
    [pc |-> "idle", op |-> "", userId |-> "", planType |-> "",
     durationDays |-> 0, existing |-> <<>>, at |-> 0, newExpiry |-> 0,
     value |-> <<>>, thrown |-> ""]

\* An HTTP exchange on POST /webhooks/payment: stage is how far the request
\* got, signature and raw what it carried, status and message the response.
NoHttp ==
    [stage |-> "none", signature |-> "", raw |-> "", status |-> 0,
     message |-> ""]

VARIABLES
    now,        \* the wall clock, in days
    events,     \* webhook_events: key -> rows
    users,      \* users: email -> number of rows
    payments,   \* payments: external_payment_id -> rows
    subs,       \* subscriptions: <<user id, plan type>> -> rows
    pc,         \* handler -> its position in processWebhook
    payload,    \* handler -> the payload it was called with
    email,      \* handler -> the email findOrCreateUser works with
    tx,         \* handler -> the uncommitted writes of its transaction
    result,     \* handler -> what processWebhook returned or threw
    wrote,      \* handler -> whether the call issued any store write
    txStarts,   \* handler -> how many times the call entered $transaction
    upserts,    \* key -> committed subscription upserts for that event
    cp,         \* the PaymentsService.createPayment call in progress
    sc,         \* caller -> its SubscriptionsService call in progress
    http        \* handler -> the HTTP request it serves and its response

store == <<events, users, payments, subs>>
vars == <<now, events, users, payments, subs, pc, payload, email, tx,
          result, wrote, txStarts, upserts, cp, sc, http>>

\* --------------------------------------------------------------- the store

Key(p) == <<p.externalPaymentId, p.eventType>>

EventId(k, i) == "evt:" \o k[1] \o ":" \o k[2] \o "#" \o ToString(i)
UserId(e) == "usr:" \o e
PaymentId(pid, i) == "pmt:" \o pid \o "#" \o ToString(i)
SubscriptionId(u, plan, i) == "sub:" \o u \o ":" \o plan \o "#" \o ToString(i)

UserRows(e) == IF e \in DOMAIN users THEN users[e] ELSE 0
SubRows(u, plan) ==
    IF <<u, plan>> \in DOMAIN subs THEN subs[<<u, plan>>] ELSE <<>>

\* The composite index on webhook_events left out of the schema.
EventKeyFree_NoIndex(k) == TRUE

\* The unique index on users.email left out of the schema.
UserEmailFree_NoIndex(e) == TRUE

\* The unique index on payments.external_payment_id left out of the schema.
PaymentIdFree_NoIndex(pid) == TRUE

\* The unique indexes: a create for a key that has a row fails with P2002.
EventKeyFree(k) == events[k] = <<>>
UserEmailFree(e) == UserRows(e) = 0
PaymentIdFree(pid) == payments[pid] = <<>>

InTx(h) == pc[h] \in {"tx_payment", "tx_subscription", "tx_mark"}

\* A second insert or update of a row another open transaction has written
\* waits for that transaction to end.
PaymentLocked(h, pid) ==
    \E g \in Handlers \ {h} :
        /\ InTx(g)
        /\ tx[g].payment # <<>>
        /\ payload[g].externalPaymentId = pid

SubLocked(h, u, plan) ==
    \E g \in Handlers \ {h} :
        /\ InTx(g)
        /\ tx[g].sub # <<>>
        /\ UserId(email[g]) = u
        /\ payload[g].planType = plan

\* ------------------------------------------------------------ pure helpers

ValidPlanTypes == {"monthly", "yearly", "lifetime"}

getExpectedAmountForPlan(planType) ==
    CASE planType = "monthly" -> 999
      [] planType = "yearly" -> 9999
      [] planType = "lifetime" -> 29999
      [] OTHER -> 0

getSubscriptionDuration(planType) ==
    CASE planType = "monthly" -> 30
      [] planType = "yearly" -> 365
      [] planType = "lifetime" -> 36500
      [] OTHER -> 30

Abs(x) == IF x < 0 THEN -x ELSE x

\* Variants of the validation: the plan rule checked first; a price outside
\* the tolerance rejected instead of logged.
validateWebhookBusinessLogic_PlanFirst(p) ==
    IF p.planType \notin {"monthly", "yearly", "lifetime"}
    THEN "Invalid plan type"
    ELSE IF p.amount <= 0 THEN "Amount must be positive"
    ELSE ""

validateWebhookBusinessLogic_RejectsMismatch(p) ==
    IF p.amount <= 0 THEN "Amount must be positive"
    ELSE IF p.planType \notin {"monthly", "yearly", "lifetime"}
    THEN "Invalid plan type"
    ELSE IF p.amount - 100 > (CASE p.planType = "monthly" -> 999
                                [] p.planType = "yearly" -> 9999
                                [] OTHER -> 29999)
            \/ p.amount + 100 < (CASE p.planType = "monthly" -> 999
                                   [] p.planType = "yearly" -> 9999
                                   [] OTHER -> 29999)
    THEN "Amount mismatch"
    ELSE ""

\* validateWebhookBusinessLogic: "" when it returns, else the message of the
\* BadRequestException it throws.
validateWebhookBusinessLogic(p) ==
    IF p.amount <= 0 THEN "Amount must be positive"
    ELSE IF p.planType \notin ValidPlanTypes THEN "Invalid plan type"
    ELSE ""

\* The mismatch branch only logs.
AmountMismatch(p) ==
    Abs(p.amount - getExpectedAmountForPlan(p.planType)) > 100

PlaceholderEmail(t) == "user-" \o ToString(t) \o "@pending.com"

Failure(msg) == [NoResult EXCEPT !.error = msg]
UniqueViolation(index) ==
    [NoResult EXCEPT !.error = "P2002", !.target = index]

\* -------------------------------------------------------------------- Init

Init ==
    /\ now = 0
    /\ events = [k \in Keys |-> <<>>]
    /\ users = <<>>
    /\ payments = [p \in Pids |-> <<>>]
    /\ subs = <<>>
    /\ pc = [h \in Handlers |-> "idle"]
    /\ payload = [h \in Handlers |-> NoPayload]
    /\ email = [h \in Handlers |-> NoEmail]
    /\ tx = [h \in Handlers |-> NoTx]
    /\ result = [h \in Handlers |-> NoResult]
    /\ wrote = [h \in Handlers |-> FALSE]
    /\ txStarts = [h \in Handlers |-> 0]
    /\ upserts = [k \in Keys |-> 0]
    /\ cp = NoCall
    /\ sc = [c \in Callers |-> NoSubCall]
    /\ http = [h \in Handlers |-> NoHttp]

\* ----------------------------------------------------------------- actions

\* Variants of the dedup lookup with a plausible slip each: the key's
\* components swapped, only PROCESSED rows counted, the event type ignored.
checkIfAlreadyProcessed_SwappedKey(externalPaymentId, eventType) ==
    IF <<eventType, externalPaymentId>> \in Keys
    THEN events[<<eventType, externalPaymentId>>] ELSE <<>>

checkIfAlreadyProcessed_ProcessedOnly(externalPaymentId, eventType) ==
    SelectSeq(events[<<externalPaymentId, eventType>>],
              LAMBDA r : r.status = "PROCESSED")

checkIfAlreadyProcessed_PaymentIdOnly(externalPaymentId, eventType) ==
    LET hits == { k \in Keys : k[1] = externalPaymentId /\ events[k] # <<>> }
    IN  IF hits = {} THEN <<>> ELSE events[CHOOSE k \in hits : TRUE]

\* STEP 1: checkIfAlreadyProcessed, a findUnique on the composite key.
checkIfAlreadyProcessed(externalPaymentId, eventType) ==
    events[<<externalPaymentId, eventType>>]

\* A delivery reaches processWebhook, which runs up to the answer of the
\* dedup lookup.  Handlers are taken in order.
Deliver(h, p) ==
    /\ pc[h] = "idle"
    /\ \A g \in Handlers : g < h => pc[g] # "idle"
    /\ payload' = [payload EXCEPT ![h] = p]
    /\ LET existingEvent ==
            checkIfAlreadyProcessed(p.externalPaymentId, p.eventType)
       IN  IF existingEvent # <<>>
           THEN /\ pc' = [pc EXCEPT ![h] = "done"]
                /\ result' = [result EXCEPT ![h] =
                       [NoResult EXCEPT !.success = TRUE,
                                        !.isDuplicate = TRUE,
                                        !.paymentId = existingEvent[1].id]]
           ELSE /\ pc' = [pc EXCEPT ![h] = "create_event"]
                /\ UNCHANGED result
    /\ UNCHANGED <<now, cp, store, email, tx, wrote, txStarts, upserts, sc,
                   http>>

\* processWebhook going on to the user without having recorded the event.
CreateEvent_Deferred(h) ==
    /\ pc[h] = "create_event"
    /\ pc' = [pc EXCEPT ![h] = "find_user"]
    /\ UNCHANGED <<now, cp, store, payload, email, tx, result, wrote,
                   txStarts, upserts, sc, http>>

\* STEP 2: webhookEvent.create with status RECEIVED.  A uniqueness violation
\* is thrown into the catch block, which logs and rethrows it.
CreateEvent(h) ==
    /\ pc[h] = "create_event"
    /\ LET k == Key(payload[h])
       IN  IF EventKeyFree(k)
           THEN /\ events' = [events EXCEPT ![k] = Append(@,
                       [id |-> EventId(k, Len(@) + 1), status |-> "RECEIVED",
                        processed_at |-> Never])]
                /\ pc' = [pc EXCEPT ![h] = "find_user"]
                /\ wrote' = [wrote EXCEPT ![h] = TRUE]
                /\ UNCHANGED result
           ELSE /\ pc' = [pc EXCEPT ![h] = "done"]
                /\ result' = [result EXCEPT ![h] =
                       UniqueViolation("webhook_events")]
                /\ UNCHANGED <<events, wrote>>
    /\ UNCHANGED <<now, cp, users, payments, subs, payload, email, tx, txStarts,
                   upserts, sc, http>>

\* STEP 4 with the exception caught and turned into a plain failure result.
AfterUser_Swallowed(h) ==
    LET msg == validateWebhookBusinessLogic(payload[h])
    IN  IF msg # ""
        THEN /\ pc' = [pc EXCEPT ![h] = "done"]
             /\ result' = [result EXCEPT ![h] = NoResult]
             /\ UNCHANGED txStarts
        ELSE /\ pc' = [pc EXCEPT ![h] = "tx_payment"]
             /\ txStarts' = [txStarts EXCEPT ![h] = @ + 1]
             /\ UNCHANGED result

\* processWebhook without STEP 4: the transaction starts for any payload.
AfterUser_Unvalidated(h) ==
    /\ pc' = [pc EXCEPT ![h] = "tx_payment"]
    /\ txStarts' = [txStarts EXCEPT ![h] = @ + 1]
    /\ UNCHANGED result

\* STEP 4 and the entry of STEP 5, run synchronously once the user is known:
\* validation throws, or the transaction is started.
AfterUser(h) ==
    LET msg == validateWebhookBusinessLogic(payload[h])
    IN  IF msg # ""
        THEN /\ pc' = [pc EXCEPT ![h] = "done"]
             /\ result' = [result EXCEPT ![h] = Failure(msg)]
             /\ UNCHANGED txStarts
        ELSE /\ pc' = [pc EXCEPT ![h] = "tx_payment"]
             /\ txStarts' = [txStarts EXCEPT ![h] = @ + 1]
             /\ UNCHANGED result

\* STEP 3, first half: the placeholder email and user.findUnique.
FindUser(h) ==
    /\ pc[h] = "find_user"
    /\ LET e == IF payload[h].email = NoEmail
                THEN PlaceholderEmail(now) ELSE payload[h].email
       IN  /\ email' = [email EXCEPT ![h] = e]
           /\ IF UserRows(e) > 0
              THEN AfterUser(h)
              ELSE /\ pc' = [pc EXCEPT ![h] = "create_user"]
                   /\ UNCHANGED <<result, txStarts>>
    /\ UNCHANGED <<now, cp, store, payload, tx, wrote, upserts, sc, http>>

\* STEP 3, second half: user.create.
CreateUser(h) ==
    /\ pc[h] = "create_user"
    /\ IF UserEmailFree(email[h])
       THEN /\ users' = (email[h] :> 1) @@ users
            /\ wrote' = [wrote EXCEPT ![h] = TRUE]
            /\ AfterUser(h)
       ELSE /\ pc' = [pc EXCEPT ![h] = "done"]
            /\ result' = [result EXCEPT ![h] = UniqueViolation("users")]
            /\ UNCHANGED <<users, wrote, txStarts>>
    /\ UNCHANGED <<now, cp, events, payments, subs, payload, email, tx,
                   upserts, sc, http>>

\* tx.payment.create issued on the plain client instead of the transaction
\* client: the row is visible at once and survives a rollback.
TxCreatePayment_Autocommit(h) ==
    /\ pc[h] = "tx_payment"
    /\ LET pid == payload[h].externalPaymentId
           row == [id |-> PaymentId(pid, Len(payments[pid]) + 1),
                   user_id |-> UserId(email[h]),
                   amount |-> payload[h].amount,
                   plan_type |-> payload[h].planType,
                   status |-> "COMPLETED"]
       IN  /\ ~PaymentLocked(h, pid)
           /\ IF PaymentIdFree(pid)
              THEN /\ payments' = [payments EXCEPT ![pid] = Append(@, row)]
                   /\ pc' = [pc EXCEPT ![h] = "tx_subscription"]
                   /\ UNCHANGED <<tx, result>>
              ELSE /\ tx' = [tx EXCEPT ![h] = NoTx]
                   /\ pc' = [pc EXCEPT ![h] = "done"]
                   /\ result' = [result EXCEPT ![h] =
                          UniqueViolation("payments")]
                   /\ UNCHANGED payments
    /\ wrote' = [wrote EXCEPT ![h] = TRUE]
    /\ UNCHANGED <<now, cp, events, users, subs, payload, email, txStarts,
                   upserts, sc, http>>

\* The transaction with the event update moved up: tx.payment.create is
\* followed by tx.webhookEvent.update, before the upsert.
TxCreatePayment_ThenMark(h) ==
    /\ pc[h] = "tx_payment"
    /\ LET pid == payload[h].externalPaymentId
       IN  /\ ~PaymentLocked(h, pid)
           /\ IF PaymentIdFree(pid)
              THEN /\ tx' = [tx EXCEPT ![h].payment =
                          <<[id |-> PaymentId(pid, Len(payments[pid]) + 1),
                             user_id |-> UserId(email[h]),
                             amount |-> payload[h].amount,
                             plan_type |-> payload[h].planType,
                             status |-> "COMPLETED"]>>]
                   /\ pc' = [pc EXCEPT ![h] = "tx_mark"]
                   /\ UNCHANGED result
              ELSE /\ tx' = [tx EXCEPT ![h] = NoTx]
                   /\ pc' = [pc EXCEPT ![h] = "done"]
                   /\ result' = [result EXCEPT ![h] =
                          UniqueViolation("payments")]
    /\ wrote' = [wrote EXCEPT ![h] = TRUE]
    /\ UNCHANGED <<now, cp, store, payload, email, txStarts, upserts, sc, http>>

\* tx.payment.create replaced by an upsert on external_payment_id: a row that
\* exists is taken over and the transaction goes on.
TxCreatePayment_ReusesExisting(h) ==
    /\ pc[h] = "tx_payment"
    /\ LET pid == payload[h].externalPaymentId
       IN  /\ ~PaymentLocked(h, pid)
           /\ tx' = [tx EXCEPT ![h].payment =
                  IF PaymentIdFree(pid)
                  THEN <<[id |-> PaymentId(pid, Len(payments[pid]) + 1),
                          user_id |-> UserId(email[h]),
                          amount |-> payload[h].amount,
                          plan_type |-> payload[h].planType,
                          status |-> "COMPLETED"]>>
                  ELSE payments[pid]]
    /\ pc' = [pc EXCEPT ![h] = "tx_subscription"]
    /\ wrote' = [wrote EXCEPT ![h] = TRUE]
    /\ UNCHANGED <<now, cp, store, payload, email, result, txStarts, upserts,
                   sc, http>>

\* Transaction step 1: tx.payment.create.
TxCreatePayment(h) ==
    /\ pc[h] = "tx_payment"
    /\ LET pid == payload[h].externalPaymentId
       IN  /\ ~PaymentLocked(h, pid)
           /\ IF PaymentIdFree(pid)
              THEN /\ tx' = [tx EXCEPT ![h].payment =
                          <<[id |-> PaymentId(pid, Len(payments[pid]) + 1),
                             user_id |-> UserId(email[h]),
                             amount |-> payload[h].amount,
                             plan_type |-> payload[h].planType,
                             status |-> "COMPLETED"]>>]
                   /\ pc' = [pc EXCEPT ![h] = "tx_subscription"]
                   /\ UNCHANGED result
              ELSE /\ tx' = [tx EXCEPT ![h] = NoTx]
                   /\ pc' = [pc EXCEPT ![h] = "done"]
                   /\ result' = [result EXCEPT ![h] =
                          UniqueViolation("payments")]
    /\ wrote' = [wrote EXCEPT ![h] = TRUE]
    /\ UNCHANGED <<now, cp, store, payload, email, txStarts, upserts, sc, http>>

\* Transaction step 2: tx.subscription.upsert on (user_id, plan_type).
UpsertedSubscription(existing, u, plan, t) ==
    LET expires == t + getSubscriptionDuration(plan)
    IN  IF existing = <<>>
        THEN [id |-> SubscriptionId(u, plan, 1), status |-> "ACTIVE",
              started_at |-> t, expires_at |-> expires]
        ELSE [existing[1] EXCEPT !.status = "ACTIVE", !.expires_at = expires]

TxUpsertSubscription(h) ==
    /\ pc[h] = "tx_subscription"
    /\ LET u == UserId(email[h])
           plan == payload[h].planType
       IN  /\ ~SubLocked(h, u, plan)
           /\ tx' = [tx EXCEPT ![h].sub =
                  <<UpsertedSubscription(SubRows(u, plan), u, plan, now)>>,
                              ![h].at = now]
    /\ pc' = [pc EXCEPT ![h] = "tx_mark"]
    /\ UNCHANGED <<now, cp, store, payload, email, result, wrote, txStarts,
                   upserts, sc, http>>

\* The transaction callback returning the two ids in each other's place.
TxMarkProcessed_SwapsIds(h) ==
    /\ pc[h] = "tx_mark"
    /\ LET k == Key(payload[h])
           pid == payload[h].externalPaymentId
           u == UserId(email[h])
           plan == payload[h].planType
           row == tx[h].sub[1]
       IN  /\ payments' = [payments EXCEPT ![pid] = @ \o tx[h].payment]
           /\ subs' = IF SubRows(u, plan) = <<>>
                      THEN (<<u, plan>> :> <<row>>) @@ subs
                      ELSE [subs EXCEPT ![<<u, plan>>] = [@ EXCEPT ![1] = row]]
           /\ events' = [events EXCEPT ![k] = [@ EXCEPT ![1] =
                  [@ EXCEPT !.status = "PROCESSED", !.processed_at = now]]]
           /\ upserts' = [upserts EXCEPT ![k] = @ + 1]
           /\ result' = [result EXCEPT ![h] =
                  [NoResult EXCEPT !.success = TRUE,
                                   !.paymentId = row.id,
                                   !.subscriptionId = tx[h].payment[1].id]]
    /\ tx' = [tx EXCEPT ![h] = NoTx]
    /\ pc' = [pc EXCEPT ![h] = "done"]
    /\ UNCHANGED <<now, cp, users, payload, email, wrote, txStarts, sc, http>>

\* Transaction step 3: tx.webhookEvent.update to PROCESSED, then the callback
\* returns and the transaction commits: its three writes become visible.
TxMarkProcessed(h) ==
    /\ pc[h] = "tx_mark"
    /\ LET k == Key(payload[h])
           pid == payload[h].externalPaymentId
           u == UserId(email[h])
           plan == payload[h].planType
           row == tx[h].sub[1]
       IN  /\ payments' = [payments EXCEPT ![pid] = @ \o tx[h].payment]
           /\ subs' = IF SubRows(u, plan) = <<>>
                      THEN (<<u, plan>> :> <<row>>) @@ subs
                      ELSE [subs EXCEPT ![<<u, plan>>] = [@ EXCEPT ![1] = row]]
           /\ events' = [events EXCEPT ![k] = [@ EXCEPT ![1] =
                  [@ EXCEPT !.status = "PROCESSED", !.processed_at = now]]]
           /\ upserts' = [upserts EXCEPT ![k] = @ + 1]
           /\ result' = [result EXCEPT ![h] =
                  [NoResult EXCEPT !.success = TRUE,
                                   !.paymentId = tx[h].payment[1].id,
                                   !.subscriptionId = row.id]]
    /\ tx' = [tx EXCEPT ![h] = NoTx]
    /\ pc' = [pc EXCEPT ![h] = "done"]
    /\ UNCHANGED <<now, cp, users, payload, email, wrote, txStarts, sc, http>>

\* processWebhook recording the failure on the event row in its catch block.
TxAbort_MarksFailed(h) ==
    /\ InTx(h)
    /\ tx' = [tx EXCEPT ![h] = NoTx]
    /\ pc' = [pc EXCEPT ![h] = "done"]
    /\ result' = [result EXCEPT ![h] = Failure("Transaction failed")]
    /\ events' = [events EXCEPT ![Key(payload[h])] =
                     [@ EXCEPT ![1] = [@ EXCEPT !.status = "FAILED"]]]
    /\ UNCHANGED <<now, cp, users, payments, subs, payload, email, wrote,
                   txStarts, upserts, sc, http>>

\* processWebhook with a retry loop around the transaction: a failed attempt
\* is followed by a second one.
TxAbort_Retries(h) ==
    /\ InTx(h)
    /\ tx' = [tx EXCEPT ![h] = NoTx]
    /\ IF txStarts[h] < 2
       THEN /\ pc' = [pc EXCEPT ![h] = "tx_payment"]
            /\ txStarts' = [txStarts EXCEPT ![h] = @ + 1]
            /\ UNCHANGED result
       ELSE /\ pc' = [pc EXCEPT ![h] = "done"]
            /\ result' = [result EXCEPT ![h] = Failure("Transaction failed")]
            /\ UNCHANGED txStarts
    /\ UNCHANGED <<now, cp, store, payload, email, wrote, upserts, sc, http>>

\* A statement of the transaction fails (store unavailable, connection lost,
\* process crash): the transaction rolls back and the error is rethrown.
TxAbort(h) ==
    /\ InTx(h)
    /\ tx' = [tx EXCEPT ![h] = NoTx]
    /\ pc' = [pc EXCEPT ![h] = "done"]
    /\ result' = [result EXCEPT ![h] = Failure("Transaction failed")]
    /\ UNCHANGED <<now, cp, store, payload, email, wrote, txStarts, upserts,
                   sc, http>>

\* The controller has answered the sender; the next delivery is handled by a
\* new processWebhook call.
Return(h) ==
    /\ pc[h] = "done"
    /\ pc' = [pc EXCEPT ![h] = "idle"]
    /\ payload' = [payload EXCEPT ![h] = NoPayload]
    /\ email' = [email EXCEPT ![h] = NoEmail]
    /\ result' = [result EXCEPT ![h] = NoResult]
    /\ wrote' = [wrote EXCEPT ![h] = FALSE]
    /\ txStarts' = [txStarts EXCEPT ![h] = 0]
    /\ UNCHANGED <<now, cp, store, tx, upserts, sc, http>>

Tick ==
    /\ now < MaxTicks * TickDays
    /\ now' = now + TickDays
    /\ UNCHANGED <<store, pc, payload, email, tx, result, wrote, txStarts,
                   upserts, cp, sc, http>>

Next ==
    \/ \E h \in Handlers, p \in Payloads : Deliver(h, p)
    \/ \E h \in Handlers : CreateEvent(h)
    \/ \E h \in Handlers : FindUser(h)
    \/ \E h \in Handlers : CreateUser(h)
    \/ \E h \in Handlers : TxCreatePayment(h)
    \/ \E h \in Handlers : TxUpsertSubscription(h)
    \/ \E h \in Handlers : TxMarkProcessed(h)
    \/ \E h \in Handlers : TxAbort(h)
    \/ Tick

Spec == Init /\ [][Next]_vars

\* ------------------------------------------------- redelivery by the sender

\* The sender keeps redelivering the events of one payment until it gets an
\* answer it accepts; the controller answers every delivery with 200.
RedeliveredPayloads == { p \in Payloads : p.externalPaymentId = "pay_1" }

NextRedelivery ==
    \/ \E h \in Handlers, p \in RedeliveredPayloads : Deliver(h, p)
    \/ \E h \in Handlers : CreateEvent(h)
    \/ \E h \in Handlers : FindUser(h)
    \/ \E h \in Handlers : CreateUser(h)
    \/ \E h \in Handlers : TxCreatePayment(h)
    \/ \E h \in Handlers : TxUpsertSubscription(h)
    \/ \E h \in Handlers : TxMarkProcessed(h)
    \/ \E h \in Handlers : TxAbort(h)
    \/ \E h \in Handlers : Return(h)
    \/ Tick

\* What a running call does next when nothing fails.
Progress(h) ==
    \/ CreateEvent(h)
    \/ FindUser(h)
    \/ CreateUser(h)
    \/ TxCreatePayment(h)
    \/ TxUpsertSubscription(h)
    \/ TxMarkProcessed(h)
    \/ Return(h)

\* A running call keeps going (the event loop runs every continuation whose
\* await has settled) and the sender keeps redelivering every event.  Faults
\* (TxAbort) may stop happening: nothing forces them.
FairSpec ==
    /\ Init
    /\ [][NextRedelivery]_vars
    /\ \A h \in Handlers : WF_vars(Progress(h))
    /\ \A p \in RedeliveredPayloads :
           SF_vars(\E h \in Handlers : Deliver(h, p))

\* ---------------------------------------------- PaymentsService.createPayment

CreatePaymentInputs ==
    [userId : {UserId("a@example.com"), UserId("b@example.com")},
     externalPaymentId : {"pay_1", "pay_2"},
     amount : {999, 5000},
     planType : {"monthly", "yearly"}]

\* The caller of createPayment is no webhook handler.
ServiceCaller == 0

CreatePaymentCall(data) ==
    /\ cp.pc = "idle"
    /\ cp' = [NoCall EXCEPT !.pc = "create", !.data = data]
    /\ UNCHANGED <<now, store, pc, payload, email, tx, result, wrote,
                   txStarts, upserts, sc, http>>

\* createPayment without its catch branch for P2002.
CreatePaymentInsert_NoCatch ==
    /\ cp.pc = "create"
    /\ LET pid == cp.data.externalPaymentId
       IN  /\ ~PaymentLocked(ServiceCaller, pid)
           /\ IF PaymentIdFree(pid)
              THEN LET row == [id |-> PaymentId(pid, Len(payments[pid]) + 1),
                               user_id |-> cp.data.userId,
                               amount |-> cp.data.amount,
                               plan_type |-> cp.data.planType,
                               status |-> "COMPLETED"]
                   IN  /\ payments' = [payments EXCEPT ![pid] = Append(@, row)]
                       /\ cp' = [cp EXCEPT !.pc = "done", !.value = <<row>>]
              ELSE /\ cp' = [cp EXCEPT !.pc = "done", !.thrown = "P2002"]
                   /\ UNCHANGED payments
    /\ UNCHANGED <<now, events, users, subs, pc, payload, email, tx, result,
                   wrote, txStarts, upserts, sc, http>>

\* db.payment.create: the row is returned, or P2002 is caught and the call
\* goes on to findByExternalId.
CreatePaymentInsert ==
    /\ cp.pc = "create"
    /\ LET pid == cp.data.externalPaymentId
       IN  /\ ~PaymentLocked(ServiceCaller, pid)
           /\ IF PaymentIdFree(pid)
              THEN LET row == [id |-> PaymentId(pid, Len(payments[pid]) + 1),
                               user_id |-> cp.data.userId,
                               amount |-> cp.data.amount,
                               plan_type |-> cp.data.planType,
                               status |-> "COMPLETED"]
                   IN  /\ payments' = [payments EXCEPT ![pid] = Append(@, row)]
                       /\ cp' = [cp EXCEPT !.pc = "done", !.value = <<row>>]
              ELSE /\ cp' = [cp EXCEPT !.pc = "find"]
                   /\ UNCHANGED payments
    /\ UNCHANGED <<now, events, users, subs, pc, payload, email, tx, result,
                   wrote, txStarts, upserts, sc, http>>

\* db.payment.create rejects with an error other than P2002: it is logged
\* and rethrown.
CreateFaults == {"Database connection failed"}

CreatePaymentInsertFails(msg) ==
    /\ cp.pc = "create"
    /\ cp' = [cp EXCEPT !.pc = "done", !.thrown = msg]
    /\ UNCHANGED <<now, store, pc, payload, email, tx, result, wrote,
                   txStarts, upserts, sc, http>>

\* findByExternalId, a findUnique on external_payment_id.
findByExternalId(externalPaymentId) == payments[externalPaymentId]

CreatePaymentFindExisting ==
    /\ cp.pc = "find"
    /\ cp' = [cp EXCEPT !.pc = "done",
                        !.value = findByExternalId(cp.data.externalPaymentId)]
    /\ UNCHANGED <<now, store, pc, payload, email, tx, result, wrote,
                   txStarts, upserts, sc, http>>

CreatePaymentReturn ==
    /\ cp.pc = "done"
    /\ cp' = NoCall
    /\ UNCHANGED <<now, store, pc, payload, email, tx, result, wrote,
                   txStarts, upserts, sc, http>>

NextPayments ==
    \/ \E data \in CreatePaymentInputs : CreatePaymentCall(data)
    \/ CreatePaymentInsert
    \/ \E msg \in CreateFaults : CreatePaymentInsertFails(msg)
    \/ CreatePaymentFindExisting
    \/ CreatePaymentReturn

SpecPayments == Init /\ [][NextPayments]_vars

\* -------------------------------------------------- SubscriptionsService

webhook == <<pc, payload, email, tx, result, wrote, txStarts, upserts>>

\* The arguments the service is called with.
SubInputs ==
    { [userId |-> UserId("a@example.com"), planType |-> "monthly",
       durationDays |-> 30],
      [userId |-> UserId("a@example.com"), planType |-> "yearly",
       durationDays |-> 365] }

\* A row written by another part of the application before any payment: the
\* schema lets expires_at be null.
PendingRow(u, plan) ==
    [id |-> SubscriptionId(u, plan, 1), status |-> "PENDING",
     started_at |-> 0, expires_at |-> Never]

SeedSubs ==
    { <<>> } \cup
    { (<<i.userId, i.planType>> :> <<PendingRow(i.userId, i.planType)>>) :
        i \in SubInputs }

\* Variants of the renewal calculation: always from now; any unexpired row
\* extended whatever its status.
newExpiryDate_FromNow(existing, t, durationDays) == t + durationDays

newExpiryDate_IgnoresStatus(existing, t, durationDays) ==
    IF /\ existing # <<>>
       /\ existing[1].expires_at # Never
       /\ existing[1].expires_at > t
    THEN existing[1].expires_at + durationDays
    ELSE t + durationDays

\* newExpiryDate as activateOrExtendSubscription computes it.  setDate adds
\* calendar days, which in the model's unit is an addition of days.
newExpiryDate(existing, t, durationDays) ==
    IF /\ existing # <<>>
       /\ existing[1].status = "ACTIVE"
       /\ existing[1].expires_at # Never
       /\ existing[1].expires_at > t
    THEN existing[1].expires_at + durationDays
    ELSE t + durationDays

\* An upsert that never takes its update branch.
UpsertRows_AlwaysCreate(rows, created, status, expires) ==
    Append(rows, created)

\* subscription.upsert on user_id_plan_type: one atomic statement that
\* creates the row when the key has none and otherwise updates it in place.
UpsertRows(rows, created, status, expires) ==
    IF rows = <<>>
    THEN <<created>>
    ELSE [rows EXCEPT ![1] = [@ EXCEPT !.status = status,
                                       !.expires_at = expires]]

\* activateOrExtendSubscription up to its upsert: findUnique, now, and the
\* computation of newExpiryDate.  Callers are taken in order, each for one
\* call.
ActivateFind(c, i) ==
    /\ sc[c].pc = "idle"
    /\ \A b \in Callers : b < c => sc[b].pc # "idle"
    /\ LET existing == SubRows(i.userId, i.planType)
       IN  sc' = [sc EXCEPT ![c] =
                    [NoSubCall EXCEPT
                       !.pc = "upsert", !.op = "activate",
                       !.userId = i.userId, !.planType = i.planType,
                       !.durationDays = i.durationDays,
                       !.existing = existing, !.at = now,
                       !.newExpiry =
                           newExpiryDate(existing, now, i.durationDays)]]
    /\ UNCHANGED <<now, store, webhook, cp, http>>

\* The upsert of activateOrExtendSubscription and its return.
ActivateUpsert(c) ==
    /\ sc[c].pc = "upsert"
    /\ LET u == sc[c].userId
           plan == sc[c].planType
           n == Len(SubRows(u, plan)) + 1
           created == [id |-> SubscriptionId(u, plan, n),
                       status |-> "ACTIVE", started_at |-> sc[c].at,
                       expires_at |-> sc[c].newExpiry]
           rows == UpsertRows(SubRows(u, plan), created, "ACTIVE",
                              sc[c].newExpiry)
       IN  /\ subs' = (<<u, plan>> :> rows) @@ subs
           /\ sc' = [sc EXCEPT ![c].pc = "done",
                               ![c].value = <<rows[Len(rows)]>>]
    /\ UNCHANGED <<now, events, users, payments, webhook, cp, http>>

\* cancelSubscription ending the entitlement at once: expires_at set to now.
CancelSubscription_EndsNow(c, i) ==
    /\ sc[c].pc = "idle"
    /\ \A b \in Callers : b < c => sc[b].pc # "idle"
    /\ LET u == i.userId
           plan == i.planType
           call == [NoSubCall EXCEPT !.pc = "done", !.op = "cancel",
                                     !.userId = u, !.planType = plan,
                                     !.at = now]
       IN  IF SubRows(u, plan) = <<>>
           THEN /\ sc' = [sc EXCEPT ![c] = [call EXCEPT !.thrown = "P2025"]]
                /\ UNCHANGED subs
           ELSE LET rows == [SubRows(u, plan) EXCEPT
                               ![1] = [@ EXCEPT !.status = "CANCELLED",
                                                !.expires_at = now]]
                IN  /\ subs' = [subs EXCEPT ![<<u, plan>>] = rows]
                    /\ sc' = [sc EXCEPT ![c] =
                                 [call EXCEPT !.existing = SubRows(u, plan),
                                              !.value = rows]]
    /\ UNCHANGED <<now, events, users, payments, webhook, cp, http>>

\* cancelSubscription: one update on user_id_plan_type, which rejects with
\* P2025 when the key has no row.
CancelSubscription(c, i) ==
    /\ sc[c].pc = "idle"
    /\ \A b \in Callers : b < c => sc[b].pc # "idle"
    /\ LET u == i.userId
           plan == i.planType
           call == [NoSubCall EXCEPT !.pc = "done", !.op = "cancel",
                                     !.userId = u, !.planType = plan,
                                     !.at = now]
       IN  IF SubRows(u, plan) = <<>>
           THEN /\ sc' = [sc EXCEPT ![c] = [call EXCEPT !.thrown = "P2025"]]
                /\ UNCHANGED subs
           ELSE LET rows == [SubRows(u, plan) EXCEPT
                               ![1] = [@ EXCEPT !.status = "CANCELLED"]]
                IN  /\ subs' = [subs EXCEPT ![<<u, plan>>] = rows]
                    /\ sc' = [sc EXCEPT ![c] =
                                 [call EXCEPT !.existing = SubRows(u, plan),
                                              !.value = rows]]
    /\ UNCHANGED <<now, events, users, payments, webhook, cp, http>>

\* The payments that reach the same subscription through processWebhook.
RenewalPayloads ==
    { p \in Payloads : /\ p.email = "a@example.com"
                       /\ p.eventType = "payment.success" }

InitSubscriptions ==
    /\ now = 0
    /\ events = [k \in Keys |-> <<>>]
    /\ users = <<>>
    /\ payments = [p \in Pids |-> <<>>]
    /\ subs \in SeedSubs
    /\ pc = [h \in Handlers |-> "idle"]
    /\ payload = [h \in Handlers |-> NoPayload]
    /\ email = [h \in Handlers |-> NoEmail]
    /\ tx = [h \in Handlers |-> NoTx]
    /\ result = [h \in Handlers |-> NoResult]
    /\ wrote = [h \in Handlers |-> FALSE]
    /\ txStarts = [h \in Handlers |-> 0]
    /\ upserts = [k \in Keys |-> 0]
    /\ cp = NoCall
    /\ sc = [c \in Callers |-> NoSubCall]
    /\ http = [h \in Handlers |-> NoHttp]

NextSubscriptions ==
    \/ \E c \in Callers, i \in SubInputs : ActivateFind(c, i)
    \/ \E c \in Callers : ActivateUpsert(c)
    \/ \E c \in Callers, i \in SubInputs : CancelSubscription(c, i)
    \/ \E p \in RenewalPayloads : Deliver(1, p)
    \/ CreateEvent(1)
    \/ FindUser(1)
    \/ CreateUser(1)
    \/ TxCreatePayment(1)
    \/ TxUpsertSubscription(1)
    \/ TxMarkProcessed(1)
    \/ TxAbort(1)
    \/ Tick

SpecSubscriptions == InitSubscriptions /\ [][NextSubscriptions]_vars

\* ------------------------------------------------- isSubscriptionActive

\* The checks of isSubscriptionActive on the row getUserSubscription
\* returned, evaluated at clock reading t.
isSubscriptionActive(subscription, t) ==
    IF subscription = <<>> THEN FALSE
    ELSE IF subscription[1].status # "ACTIVE" THEN FALSE
    ELSE IF subscription[1].expires_at = Never THEN FALSE
    ELSE IF subscription[1].expires_at < t THEN FALSE
    ELSE TRUE

\* isSubscriptionActive: the findUnique of getUserSubscription, then the
\* checks against new Date().
IsActiveCall(c, i) ==
    /\ sc[c].pc = "idle"
    /\ \A b \in Callers : b < c => sc[b].pc # "idle"
    /\ LET subscription == SubRows(i.userId, i.planType)
       IN  sc' = [sc EXCEPT ![c] =
                    [NoSubCall EXCEPT
                       !.pc = "done", !.op = "isActive",
                       !.userId = i.userId, !.planType = i.planType,
                       !.existing = subscription, !.at = now,
                       !.value = <<isSubscriptionActive(subscription, now)>>]]
    /\ UNCHANGED <<now, store, webhook, cp, http>>

SubscriptionRow(u, plan, status, expires) ==
    [id |-> SubscriptionId(u, plan, 1), status |-> status,
     started_at |-> 0, expires_at |-> expires]

\* Subscriptions the check is made on: none; rows that are pending, active
\* without expiry, active until the first clock reading, active until the
\* last one, active beyond it, and cancelled with days left.
SeedRows(u, plan) ==
    { PendingRow(u, plan),
      SubscriptionRow(u, plan, "CANCELLED", MaxTicks * TickDays + 1) }
    \cup { SubscriptionRow(u, plan, "ACTIVE", x) :
             x \in {Never, 0, MaxTicks * TickDays, MaxTicks * TickDays + 1} }

ActiveSeeds ==
    { <<>> } \cup
    UNION { { (<<i.userId, i.planType>> :> <<row>>) :
                row \in SeedRows(i.userId, i.planType) } : i \in SubInputs }

InitActive ==
    /\ now = 0
    /\ events = [k \in Keys |-> <<>>]
    /\ users = <<>>
    /\ payments = [p \in Pids |-> <<>>]
    /\ subs \in ActiveSeeds
    /\ pc = [h \in Handlers |-> "idle"]
    /\ payload = [h \in Handlers |-> NoPayload]
    /\ email = [h \in Handlers |-> NoEmail]
    /\ tx = [h \in Handlers |-> NoTx]
    /\ result = [h \in Handlers |-> NoResult]
    /\ wrote = [h \in Handlers |-> FALSE]
    /\ txStarts = [h \in Handlers |-> 0]
    /\ upserts = [k \in Keys |-> 0]
    /\ cp = NoCall
    /\ sc = [c \in Callers |-> NoSubCall]
    /\ http = [h \in Handlers |-> NoHttp]

NextActive ==
    \/ \E c \in Callers, i \in SubInputs : IsActiveCall(c, i)
    \/ \E c \in Callers, i \in SubInputs : ActivateFind(c, i)
    \/ \E c \in Callers : ActivateUpsert(c)
    \/ \E c \in Callers, i \in SubInputs : CancelSubscription(c, i)
    \/ Tick

SpecActive == InitActive /\ [][NextActive]_vars

\* ------------------------------------------------ deliveries to validate

\* Events that exercise the business validation: amounts that are zero,
\* negative and far from the plan's price, plans outside the catalogue.
ValidationPayloads ==
    { Payload("pay_1", "payment.success", "a@example.com", 0, "monthly"),
      Payload("pay_1", "payment.failed", "a@example.com", -500, "yearly"),
      Payload("pay_2", "payment.success", "a@example.com", 999, "weekly"),
      Payload("pay_2", "payment.failed", "a@example.com", 0, "invalid_plan"),
      Payload("pay_3", "payment.success", "a@example.com", 1, "yearly"),
      Payload("pay_4", "payment.success", NoEmail, 99999, "lifetime") }

NextValidation ==
    \/ \E h \in Handlers, p \in ValidationPayloads : Deliver(h, p)
    \/ \E h \in Handlers : CreateEvent(h)
    \/ \E h \in Handlers : FindUser(h)
    \/ \E h \in Handlers : CreateUser(h)
    \/ \E h \in Handlers : TxCreatePayment(h)
    \/ \E h \in Handlers : TxUpsertSubscription(h)
    \/ \E h \in Handlers : TxMarkProcessed(h)
    \/ \E h \in Handlers : TxAbort(h)
    \/ Tick

SpecValidation == Init /\ [][NextValidation]_vars

\* --------------------------------------------------- deliveries by email

\* Distinct events of one customer, an event of an address that differs from
\* it in case only, and an event that fails validation after its user was
\* resolved.
UserPayloads ==
    { Payload("pay_1", "payment.success", "a@example.com", 999, "monthly"),
      Payload("pay_2", "payment.success", "a@example.com", 9999, "yearly"),
      Payload("pay_3", "payment.success", "A@example.com", 999, "monthly"),
      Payload("pay_2", "payment.failed", "a@example.com", 0, "invalid_plan") }

NextUsers ==
    \/ \E h \in Handlers, p \in UserPayloads : Deliver(h, p)
    \/ \E h \in Handlers : CreateEvent(h)
    \/ \E h \in Handlers : FindUser(h)
    \/ \E h \in Handlers : CreateUser(h)
    \/ \E h \in Handlers : TxCreatePayment(h)
    \/ \E h \in Handlers : TxUpsertSubscription(h)
    \/ \E h \in Handlers : TxMarkProcessed(h)
    \/ \E h \in Handlers : TxAbort(h)
    \/ Tick

SpecUsers == Init /\ [][NextUsers]_vars

\* ------------------------------------------------- POST /webhooks/payment

\* Request bodies as sent, byte for byte.  RawPaidSpaced is RawPaid with a
\* space after every separator; RawNoId has no externalPaymentId, RawNoType
\* no eventType; RawBadEmail has an email that is no address; RawExtra has
\* a property the DTO does not declare.
RawPaid ==
    "{\"externalPaymentId\":\"pay_1\",\"eventType\":\"paymen" \o
    "t.success\",\"email\":\"a@example.com\",\"amount\":999," \o
    "\"currency\":\"USD\",\"planType\":\"monthly\"}"

RawPaidSpaced ==
    "{\"externalPaymentId\": \"pay_1\", \"eventType\": \"pay" \o
    "ment.success\", \"email\": \"a@example.com\", \"amount" \o
    "\": 999, \"currency\": \"USD\", \"planType\": \"monthly\"" \o
    "}"

RawZero ==
    "{\"externalPaymentId\":\"pay_2\",\"eventType\":\"paymen" \o
    "t.failed\",\"email\":\"a@example.com\",\"amount\":0,\"cu" \o
    "rrency\":\"USD\",\"planType\":\"invalid_plan\"}"

RawNegative ==
    "{\"externalPaymentId\":\"pay_2\",\"eventType\":\"paymen" \o
    "t.success\",\"email\":\"a@example.com\",\"amount\":-100" \o
    ",\"currency\":\"USD\",\"planType\":\"monthly\"}"

RawNoId ==
    "{\"eventType\":\"payment.success\",\"email\":\"a@exampl" \o
    "e.com\",\"amount\":999,\"currency\":\"USD\",\"planType\":" \o
    "\"monthly\"}"

RawNoType ==
    "{\"externalPaymentId\":\"pay_1\",\"email\":\"a@exa" \o
    "mple.com\",\"amount\":999,\"currency\":\"USD\",\"p" \o
    "lanType\":\"monthly\"}"

RawBadEmail ==
    "{\"externalPaymentId\":\"pay_1\",\"eventType\":\"p" \o
    "ayment.success\",\"email\":\"not-an-email\",\"amou" \o
    "nt\":999,\"currency\":\"USD\",\"planType\":\"month" \o
    "ly\"}"

RawExtra ==
    "{\"externalPaymentId\":\"pay_1\",\"eventType\":\"p" \o
    "ayment.success\",\"email\":\"a@example.com\",\"amo" \o
    "unt\":999,\"currency\":\"USD\",\"planType\":\"mont" \o
    "hly\",\"maliciousField\":\"hacked\"}"

RawBodies ==
    {RawPaid, RawPaidSpaced, RawZero, RawNegative, RawNoId, RawNoType,
     RawBadEmail, RawExtra}

Body(pid, etype, mail, amt, cur, plan) ==
    [externalPaymentId |-> pid, eventType |-> etype, email |-> mail,
     amount |-> amt, currency |-> cur, planType |-> plan]

\* The body parser: request.body for a raw body.  A property the text does
\* not have is "".
ParseJson(raw) ==
    CASE raw \in {RawPaid, RawPaidSpaced} ->
           Body("pay_1", "payment.success", "a@example.com", 999, "USD",
                "monthly")
      [] raw = RawZero ->
           Body("pay_2", "payment.failed", "a@example.com", 0, "USD",
                "invalid_plan")
      [] raw = RawNegative ->
           Body("pay_2", "payment.success", "a@example.com", -100, "USD",
                "monthly")
      [] raw = RawNoId ->
           Body("", "payment.success", "a@example.com", 999, "USD",
                "monthly")
      [] raw = RawNoType ->
           Body("pay_1", "", "a@example.com", 999, "USD", "monthly")
      [] raw = RawBadEmail ->
           Body("pay_1", "payment.success", "not-an-email", 999, "USD",
                "monthly")
      [] raw = RawExtra ->
           [externalPaymentId |-> "pay_1", eventType |-> "payment.success",
            email |-> "a@example.com", amount |-> 999, currency |-> "USD",
            planType |-> "monthly", maliciousField |-> "hacked"]

\* JSON.stringify: the properties in the order they were parsed, with no
\* whitespace.
StringifyJson(body) ==
    CASE body = ParseJson(RawPaid) -> RawPaid
      [] body = ParseJson(RawZero) -> RawZero
      [] body = ParseJson(RawNegative) -> RawNegative
      [] body = ParseJson(RawNoId) -> RawNoId
      [] body = ParseJson(RawNoType) -> RawNoType
      [] body = ParseJson(RawBadEmail) -> RawBadEmail
      [] body = ParseJson(RawExtra) -> RawExtra

WebhookSecret == "whsec_configured"
OtherSecret == "whsec_other"

\* crypto.createHmac('sha256', secret).update(text).digest('hex'), tabulated
\* for the secrets and texts of the model.
HmacSha256Hex(secret, text) ==
    CASE secret = WebhookSecret /\ text = RawPaid ->
           "6a9f2262002559d8e9a401c22f43177a60f18ecaa5e49889781fe142b89075aa"
      [] secret = WebhookSecret /\ text = RawPaidSpaced ->
           "cdcaf4709d7d07ec4aa402ec2e0606e7dd9d83be1b8569c30b02f16a52e40e78"
      [] secret = WebhookSecret /\ text = RawZero ->
           "21b1b6869225e7150ff8617c355b513871cc3fed64ecc145f83f37c90290bef8"
      [] secret = WebhookSecret /\ text = RawNegative ->
           "6cefdba7b3715dbcfd2e3dc095e146771a285c8ac2ae1556b7927c6b3575bf1b"
      [] secret = WebhookSecret /\ text = RawNoId ->
           "2e207bee113cae83f025011e1fed10e218486926d6f6938764ed86300036e44c"
      [] secret = WebhookSecret /\ text = RawNoType ->
           "57592bb462dc29af9996ffa1904db97203f9c0bc8ae039c8d0cbe8eb69473dde"
      [] secret = WebhookSecret /\ text = RawBadEmail ->
           "b0c4a7a3c734672c33ac0a535b5b57de9eed756f8097ef7a73604c598628910f"
      [] secret = WebhookSecret /\ text = RawExtra ->
           "89eeade4220dd5f27922cc4fa66f8c9dea065544b29700a8835725897962133c"
      [] secret = OtherSecret /\ text = RawPaid ->
           "37a09c5d9c08bdd13d1bfb76b5f2336c010322a598cbbdcb6b65a45a0d4c8e3f"
      [] secret = OtherSecret /\ text = RawPaidSpaced ->
           "b215deec5a5af2a07974530131e24cb7067040b5987aaec03da3caa6f2f4f4d6"
      [] secret = OtherSecret /\ text = RawZero ->
           "1a57465d295fa1f08b5263e81a755b65787a8d20a9ea3d2449fb9daf4433f9db"
      [] secret = OtherSecret /\ text = RawNegative ->
           "20cac14501258bd08706f24ffa0485dd69be30258c3b8ec0b98ce1f8afb04fc6"
      [] secret = OtherSecret /\ text = RawNoId ->
           "abfa5a80a4a25242ce2a8cc9605de5895ef8de38cd9f8efe91960b87892dff3f"
      [] secret = OtherSecret /\ text = RawNoType ->
           "ce1c86b1ee056b5587b5c7ed2e14a2aaa1bf0631dd3e06873ea155bf548623f4"
      [] secret = OtherSecret /\ text = RawBadEmail ->
           "45c3d5ec67403ef86f6d86204807ee064f1eaf2af6bcebdeed1652a966dfb000"
      [] secret = OtherSecret /\ text = RawExtra ->
           "9724c9128f8816f04e8460c643521a4ecdbddbf5d058c3ab498ce18368264d61"

\* Header values a request may carry; "" is no x-webhook-signature header.
NoSignature == ""
ShortSignature == "invalid_signature"
NonHexSignature ==
    "zzzzzzzzzzzzzzzzzzzzzzzzzzzzzzzz" \o "zzzzzzzzzzzzzzzzzzzzzzzzzzzzzzzz"

\* The bodies the guard is exercised with on its own.
GuardBodies == {RawPaid, RawPaidSpaced, RawZero, RawNegative, RawNoId}

Signatures ==
    {NoSignature, ShortSignature, NonHexSignature}
    \cup { HmacSha256Hex(WebhookSecret, t) : t \in GuardBodies }
    \cup { HmacSha256Hex(OtherSecret, RawPaid) }

Request(raw, signature) == [raw |-> raw, signature |-> signature]

\* What canActivate does: return true, or throw.
Activated == [returned |-> TRUE, exception |-> "", message |-> ""]
Thrown(exception, message) ==
    [returned |-> FALSE, exception |-> exception, message |-> message]

\* canActivate without the try/catch around timingSafeEqual.
canActivate_NoCatch(signature, body) ==
    LET rawBody == StringifyJson(body)
        expectedSignature == HmacSha256Hex(WebhookSecret, rawBody)
    IN  IF signature = NoSignature
        THEN Thrown("UnauthorizedException", "Missing webhook signature")
        ELSE IF Len(signature) # Len(expectedSignature)
        THEN Thrown("RangeError",
                    "Input buffers must have the same byte length")
        ELSE IF signature # expectedSignature
        THEN Thrown("UnauthorizedException", "Invalid webhook signature")
        ELSE Activated

\* WebhookSignatureGuard.canActivate.  timingSafeEqual throws a RangeError
\* for buffers of different length, which the catch turns into an
\* UnauthorizedException.
canActivate(signature, body) ==
    LET rawBody == StringifyJson(body)
        expectedSignature == HmacSha256Hex(WebhookSecret, rawBody)
    IN  IF signature = NoSignature
        THEN Thrown("UnauthorizedException", "Missing webhook signature")
        ELSE IF Len(signature) # Len(expectedSignature)
        THEN Thrown("UnauthorizedException",
                    "Invalid webhook signature format")
        ELSE IF signature # expectedSignature
        THEN Thrown("UnauthorizedException", "Invalid webhook signature")
        ELSE Activated

\* The global ValidationPipe on WebhookPayloadDto.
ValidEmails == {"a@example.com"}

\* The properties WebhookPayloadDto declares.
WhitelistedProperties ==
    {"externalPaymentId", "eventType", "email", "amount", "currency",
     "planType", "paymentMethod", "provider", "metadata"}

\* The pipe with whitelist only: unknown properties are stripped, not
\* rejected.
PassesValidationPipe_StripsUnknown(body) ==
    /\ body.externalPaymentId # ""
    /\ body.eventType # ""
    /\ body.email = NoEmail \/ body.email \in ValidEmails
    /\ body.amount >= 0
    /\ body.currency # ""
    /\ body.planType # ""

PassesValidationPipe(body) ==
    /\ DOMAIN body \subseteq WhitelistedProperties
    /\ body.externalPaymentId # ""
    /\ body.eventType # ""
    /\ body.email = NoEmail \/ body.email \in ValidEmails
    /\ body.amount >= 0
    /\ body.currency # ""
    /\ body.planType # ""

\* The payload handlePaymentWebhook passes to processWebhook.
PayloadOf(body) ==
    Payload(body.externalPaymentId, body.eventType, body.email, body.amount,
            body.planType)

\* The status Nest answers an exception with.
StatusOf(exception) ==
    CASE exception = "UnauthorizedException" -> 401
      [] exception = "BadRequestException" -> 400
      [] OTHER -> 500

\* A request arrives: the guard, then the pipe.  A request that passes both
\* is handed to handlePaymentWebhook.  Handlers are taken in order.
HttpRequest(h, req) ==
    /\ http[h].stage = "none"
    /\ \A g \in Handlers : g < h => http[g].stage # "none"
    /\ LET body == ParseJson(req.raw)
           guard == canActivate(req.signature, body)
           seen == [NoHttp EXCEPT !.signature = req.signature,
                                  !.raw = req.raw]
       IN  http' = [http EXCEPT ![h] =
                IF ~guard.returned
                THEN [seen EXCEPT !.stage = "rejected",
                                  !.status = StatusOf(guard.exception),
                                  !.message = guard.message]
                ELSE IF ~PassesValidationPipe(body)
                THEN [seen EXCEPT !.stage = "invalid",
                                  !.status = StatusOf("BadRequestException"),
                                  !.message = "Bad Request"]
                ELSE [seen EXCEPT !.stage = "accepted"]]
    /\ UNCHANGED <<now, store, webhook, cp, sc>>

\* handlePaymentWebhook calling processWebhook for a request the guard
\* rejected as well.
HttpDeliver_Unguarded(h) ==
    /\ http[h].stage \in {"accepted", "rejected"}
    /\ Deliver(h, PayloadOf(ParseJson(http[h].raw)))

\* handlePaymentWebhook calls processWebhook with the validated payload.
HttpDeliver(h) ==
    /\ http[h].stage = "accepted"
    /\ Deliver(h, PayloadOf(ParseJson(http[h].raw)))

\* handlePaymentWebhook with the error of processWebhook left to Nest.
Respond_Rethrows(h) ==
    /\ http[h].stage = "accepted"
    /\ pc[h] = "done"
    /\ http' = [http EXCEPT ![h].stage = "responded",
                            ![h].status =
                                IF result[h].success THEN 200
                                ELSE IF result[h].error
                                          \in {"Amount must be positive",
                                               "Invalid plan type"}
                                THEN 400 ELSE 500,
                            ![h].message =
                                IF result[h].success
                                THEN "Webhook processed successfully"
                                ELSE result[h].error]
    /\ UNCHANGED <<now, store, webhook, cp, sc>>

\* handlePaymentWebhook after processWebhook has settled: the response.
Respond(h) ==
    /\ http[h].stage = "accepted"
    /\ pc[h] = "done"
    /\ http' = [http EXCEPT ![h].stage = "responded",
                            ![h].status = 200,
                            ![h].message =
           IF result[h].success /\ result[h].isDuplicate
           THEN "Webhook already processed (duplicate)"
           ELSE IF result[h].success
           THEN "Webhook processed successfully"
           ELSE "Webhook received, processing failed (will retry internally)"]
    /\ UNCHANGED <<now, store, webhook, cp, sc>>

\* The requests the endpoint is driven with.
EndpointRequests ==
    { Request(RawPaid, HmacSha256Hex(WebhookSecret, RawPaid)),
      Request(RawZero, HmacSha256Hex(WebhookSecret, RawZero)),
      Request(RawNegative, HmacSha256Hex(WebhookSecret, RawNegative)),
      Request(RawNoId, HmacSha256Hex(WebhookSecret, RawNoId)),
      Request(RawNoType, HmacSha256Hex(WebhookSecret, RawNoType)),
      Request(RawBadEmail, HmacSha256Hex(WebhookSecret, RawBadEmail)),
      Request(RawExtra, HmacSha256Hex(WebhookSecret, RawExtra)),
      Request(RawPaid, NoSignature),
      Request(RawPaid, ShortSignature),
      Request(RawZero, HmacSha256Hex(WebhookSecret, RawPaid)) }

NextEndpoint ==
    \/ \E h \in Handlers, req \in EndpointRequests : HttpRequest(h, req)
    \/ \E h \in Handlers : HttpDeliver(h)
    \/ \E h \in Handlers : CreateEvent(h)
    \/ \E h \in Handlers : FindUser(h)
    \/ \E h \in Handlers : CreateUser(h)
    \/ \E h \in Handlers : TxCreatePayment(h)
    \/ \E h \in Handlers : TxUpsertSubscription(h)
    \/ \E h \in Handlers : TxMarkProcessed(h)
    \/ \E h \in Handlers : TxAbort(h)
    \/ \E h \in Handlers : Respond(h)
    \/ Tick

SpecEndpoint == Init /\ [][NextEndpoint]_vars

\* The guard alone, on every combination of body and header value.
GuardRequests == [raw : GuardBodies, signature : Signatures]

NextGuard == \E h \in Handlers, req \in GuardRequests : HttpRequest(h, req)

SpecGuard == Init /\ [][NextGuard]_vars

\* ------------------------------------------------------------------ claims

Started(h) == pc[h] = "idle" /\ pc'[h] # "idle"
Stepped(h) == pc'[h] # pc[h]
Done(h) == pc[h] = "done"
Status(k) == IF events[k] = <<>> THEN "absent" ELSE events[k][1].status
UpsertsForPayment(pid) ==
    Cardinality({ k \in Keys : k[1] = pid /\ upserts[k] > 0 })

C1_DuplicateWritesNothing ==
    \A h \in Handlers :
        (Done(h) /\ result[h].isDuplicate)
        => (result[h].success /\ ~wrote[h] /\ txStarts[h] = 0)

C1_AtMostOnce ==
    \A k \in Keys :
        /\ Len(payments[k[1]]) <= 1
        /\ upserts[k] <= 1
        /\ (Status(k) = "PROCESSED") = (upserts[k] = 1)
        /\ Status(k) = "PROCESSED" => Len(payments[k[1]]) = 1

C1_FreshResultMeansCommitted ==
    \A h \in Handlers :
        (Done(h) /\ result[h].success /\ ~result[h].isDuplicate)
        => Status(Key(payload[h])) = "PROCESSED"

C1_RedeliveryStep ==
    \A h \in Handlers :
        (Started(h) /\ events[Key(payload'[h])] # <<>>)
        => /\ pc'[h] = "done"
           /\ result'[h].success /\ result'[h].isDuplicate
           /\ UNCHANGED <<store, upserts>>

C2_UniqueRowsUnderConcurrency ==
    /\ \A k \in Keys : Len(events[k]) <= 1 /\ upserts[k] <= 1
    /\ \A pid \in Pids : Len(payments[pid]) <= 1

\* C2 witness: two deliveries of one event both passed the dedup lookup
\* before either created the row, and both have finished.
C2_Witness ==
    \E g, h \in Handlers :
        /\ g # h /\ Done(g) /\ Done(h)
        /\ payload[g] = payload[h]
        /\ ~result[g].isDuplicate /\ ~result[h].isDuplicate
        /\ result[g].success
        /\ Status(Key(payload[g])) = "PROCESSED"

\* C3: a delivery whose WebhookEvent create hits the uniqueness violation
\* ends as a duplicate; the violation is never thrown out of processWebhook.
C3_EventRaceEndsAsDuplicate ==
    \A h \in Handlers :
        Done(h) => ~(result[h].error = "P2002"
                     /\ result[h].target = "webhook_events")

\* C4: a delivery whose Payment create hits the uniqueness constraint on
\* externalPaymentId resolves to the existing Payment and ends as a
\* duplicate; it is never surfaced by processWebhook as a failure.
C4_PaymentConflictEndsAsDuplicate ==
    \A h \in Handlers :
        Done(h) => ~(result[h].error = "P2002"
                     /\ result[h].target = "payments")

\* C5: createPayment is idempotent on externalPaymentId: there is never a
\* second row for an identifier; a call whose identifier already has a row
\* leaves the table as it is, does not reject, and resolves to that row; a
\* create failure other than a uniqueness violation is rethrown unchanged
\* and writes nothing.
C5_OneRowPerId ==
    /\ \A pid \in Pids : Len(payments[pid]) <= 1
    /\ cp.pc = "find" => payments[cp.data.externalPaymentId] # <<>>
    /\ (cp.pc = "done" /\ cp.thrown = "")
       => cp.value = payments[cp.data.externalPaymentId]
    /\ (cp.pc = "done" /\ cp.thrown # "")
       => (cp.thrown \in CreateFaults /\ cp.value = <<>>)

C5_ExistingRowStep ==
    (cp.pc \in {"create", "find"} /\ cp'.pc \in {"find", "done"}
       /\ payments[cp.data.externalPaymentId] # <<>>)
    => /\ payments' = payments
       /\ cp'.thrown \in {""} \cup CreateFaults
       /\ (cp'.pc = "done" /\ cp'.thrown = "")
          => cp'.value = payments[cp.data.externalPaymentId]

C5_CreatePaymentIdempotent ==
    [](C5_OneRowPerId) /\ [][C5_ExistingRowStep]_vars

\* C5 witness: a call for an identifier that had a row before the call has
\* resolved to that row, which another call's data had created.
C5_Witness ==
    /\ cp.pc = "done" /\ cp.thrown = ""
    /\ cp.value # <<>>
    /\ cp.value = payments[cp.data.externalPaymentId]
    /\ \/ cp.value[1].user_id # cp.data.userId
       \/ cp.value[1].amount # cp.data.amount
       \/ cp.value[1].plan_type # cp.data.planType

\* C6: the apply step is all-or-nothing: no step of a transaction that is
\* still open or that fails changes what the store shows (so other handlers
\* never read an intermediate state); after a failed attempt the event is
\* still RECEIVED, nothing of the attempt is pending, and there is no
\* Payment row unless another event of that payment committed one.
C6_OpenOrFailedStep ==
    \A h \in Handlers :
        (InTx(h) /\ Stepped(h) /\ ~result'[h].success)
        => UNCHANGED <<store, upserts>>

C6_AfterFailure ==
    \A h \in Handlers :
        (Done(h) /\ txStarts[h] > 0 /\ ~result[h].success)
        => /\ Status(Key(payload[h])) = "RECEIVED"
           /\ upserts[Key(payload[h])] = 0
           /\ tx[h] = NoTx
           /\ Len(payments[payload[h].externalPaymentId])
                = UpsertsForPayment(payload[h].externalPaymentId)

C6_AllOrNothing ==
    [](C6_AfterFailure) /\ [][C6_OpenOrFailedStep]_vars

\* C6 witness: a transaction has failed; its event is RECEIVED, there is no
\* Payment row for it and its user has no subscription.
C6_Witness ==
    \E h \in Handlers :
        /\ Done(h) /\ txStarts[h] = 1
        /\ result[h].error = "Transaction failed"
        /\ Status(Key(payload[h])) = "RECEIVED"
        /\ payments[payload[h].externalPaymentId] = <<>>
        /\ SubRows(UserId(email[h]), payload[h].planType) = <<>>

\* An event whose transaction failed after its row was recorded, with no
\* call still working on it.
Stuck(k) ==
    /\ Status(k) = "RECEIVED"
    /\ \A h \in Handlers :
           (pc[h] \notin {"idle", "done"}) => Key(payload[h]) # k

FailedAfterRecorded(k) ==
    /\ Stuck(k)
    /\ \E h \in Handlers :
           /\ Done(h) /\ Key(payload[h]) = k
           /\ result[h].error = "Transaction failed"

\* C7: if processing of a valid event fails after its WebhookEvent row was
\* recorded, then under continued redelivery the event eventually becomes
\* PROCESSED.
C7_FailedAttemptRecovers ==
    \A k \in Keys : FailedAfterRecorded(k) ~> (Status(k) = "PROCESSED")

\* C8: any existing row makes a delivery a duplicate, whatever its status: a
\* delivery that finds a RECEIVED row returns isDuplicate=true and writes
\* nothing; an event left RECEIVED by a failed attempt stays RECEIVED, and
\* no later step creates its Payment or applies its upsert.
C8_ReceivedRowStep ==
    \A h \in Handlers :
        (Started(h) /\ Status(Key(payload'[h])) = "RECEIVED")
        => /\ pc'[h] = "done"
           /\ result'[h].success /\ result'[h].isDuplicate
           /\ ~wrote'[h] /\ txStarts'[h] = 0
           /\ UNCHANGED <<store, upserts>>

C8_StuckStep ==
    \A k \in Keys :
        Stuck(k)
        => /\ Stuck(k)'
           /\ events'[k] = events[k]
           /\ upserts'[k] = upserts[k]
           /\ (\A j \in Keys : j[1] = k[1] => upserts'[j] = upserts[j])
              => payments'[k[1]] = payments[k[1]]

SiblingRecorded(p) ==
    \E k \in Keys :
        /\ k[1] = p.externalPaymentId
        /\ k[2] # p.eventType
        /\ events[k] # <<>>

\* C9: a delivery whose externalPaymentId has a row under another eventType
\* and none under its own is not a duplicate: it passes the gate, and its
\* create records a second WebhookEvent row and goes on to processing.
C9_PassesGate ==
    \A h \in Handlers :
        (Started(h) /\ SiblingRecorded(payload'[h])
           /\ events[Key(payload'[h])] = <<>>)
        => /\ pc'[h] = "create_event"
           /\ ~result'[h].isDuplicate

C9_RecordsSecondRow ==
    \A h \in Handlers :
        (pc[h] = "create_event" /\ Stepped(h) /\ SiblingRecorded(payload[h])
           /\ events[Key(payload[h])] = <<>>)
        => /\ Len(events'[Key(payload[h])]) = 1
           /\ events'[Key(payload[h])][1].status = "RECEIVED"
           /\ pc'[h] = "find_user"

C9_CompositeKey == [][C9_PassesGate /\ C9_RecordsSecondRow]_vars

\* C9 witness: a payment has a row under each of its two event types, and
\* the call that recorded the second one has moved on to processing.
C9_Witness ==
    \E h \in Handlers :
        /\ pc[h] \in {"find_user", "create_user", "tx_payment"}
        /\ SiblingRecorded(payload[h])
        /\ Status(Key(payload[h])) = "RECEIVED"

\* C10: when a payment is applied for a user whose subscription for the plan
\* is ACTIVE and expires later than now, the new expires_at is the previous
\* expires_at plus the plan's duration; otherwise it is now plus the
\* duration.
C10_RenewalExtends ==
    [][ \A h \in Handlers :
          (pc[h] = "tx_mark" /\ pc'[h] = "done" /\ result'[h].success)
          => LET u == UserId(email[h])
                 plan == payload[h].planType
                 prev == SubRows(u, plan)
                 days == getSubscriptionDuration(plan)
             IN  subs'[<<u, plan>>][1].expires_at
                   = IF /\ prev # <<>>
                        /\ prev[1].status = "ACTIVE"
                        /\ prev[1].expires_at > tx[h].at
                     THEN prev[1].expires_at + days
                     ELSE tx[h].at + days ]_vars

\* The upsert of an activateOrExtendSubscription call is being executed.
Upserting(c) == sc[c].pc = "upsert" /\ sc'[c].pc = "done"

\* The row of the call's key has not been written since the call read it.
ReadIsCurrent(c) == SubRows(sc[c].userId, sc[c].planType) = sc[c].existing

Extendable(rows, t) ==
    /\ rows # <<>>
    /\ rows[1].status = "ACTIVE"
    /\ rows[1].expires_at # Never
    /\ rows[1].expires_at > t

StoredRow(c) == subs'[<<sc[c].userId, sc[c].planType>>][1]

\* C11: when the Subscription of (userId, planType) is ACTIVE and its
\* expires_at is strictly later than the call's now, the upsert stores the
\* existing expires_at plus durationDays, the status stays ACTIVE and the
\* row is otherwise the one that was there.
C11_ExtendsFromExpiry ==
    [][ \A c \in Callers :
          (Upserting(c) /\ ReadIsCurrent(c)
             /\ Extendable(sc[c].existing, sc[c].at))
          => /\ StoredRow(c).expires_at
                  = sc[c].existing[1].expires_at + sc[c].durationDays
             /\ StoredRow(c).status = "ACTIVE"
             /\ StoredRow(c).id = sc[c].existing[1].id
             /\ StoredRow(c).started_at = sc[c].existing[1].started_at
             /\ sc'[c].value = <<StoredRow(c)>> ]_vars

\* C11 witness: a call that found an active, unexpired subscription a day or
\* more after it started has returned it extended from its expiry.
C11_Witness ==
    \E c \in Callers :
        /\ sc[c].pc = "done" /\ sc[c].op = "activate"
        /\ Extendable(sc[c].existing, sc[c].at)
        /\ sc[c].at > sc[c].existing[1].started_at
        /\ sc[c].value[1].expires_at
             = sc[c].existing[1].expires_at + sc[c].durationDays
        /\ SubRows(sc[c].userId, sc[c].planType) = sc[c].value

\* C12: when the key has no Subscription, or one that is not ACTIVE, or one
\* whose expires_at is null or not later than the call's now, the upsert
\* stores now plus durationDays and status ACTIVE.
C12_RestartsFromNow ==
    [][ \A c \in Callers :
          (Upserting(c) /\ ReadIsCurrent(c)
             /\ ~Extendable(sc[c].existing, sc[c].at))
          => /\ StoredRow(c).expires_at = sc[c].at + sc[c].durationDays
             /\ StoredRow(c).status = "ACTIVE"
             /\ sc'[c].value = <<StoredRow(c)>> ]_vars

\* C12 witness: a call that found a CANCELLED subscription with a future
\* expiry has returned it ACTIVE and expiring durationDays from now.
C12_Witness ==
    \E c \in Callers :
        /\ sc[c].pc = "done" /\ sc[c].op = "activate"
        /\ sc[c].existing # <<>>
        /\ sc[c].existing[1].status = "CANCELLED"
        /\ sc[c].existing[1].expires_at > sc[c].at
        /\ sc[c].value[1].status = "ACTIVE"
        /\ sc[c].value[1].expires_at = sc[c].at + sc[c].durationDays

\* C13: no renewal computes its expiry from a stale expires_at: whenever the
\* upsert of a renewal executes on a Subscription that is ACTIVE and
\* unexpired at that moment, it adds durationDays to the expires_at then
\* stored, so after two concurrent renewals both extensions are there.
C13_NoLostExtension ==
    [][ \A c \in Callers :
          (Upserting(c)
             /\ Extendable(SubRows(sc[c].userId, sc[c].planType), sc[c].at))
          => StoredRow(c).expires_at
               = SubRows(sc[c].userId, sc[c].planType)[1].expires_at
                   + sc[c].durationDays ]_vars

\* C14: in every reachable state each (user, planType) has at most one
\* Subscription row.
C14_OneRowPerUserPlan ==
    \A k \in DOMAIN subs : Len(subs[k]) <= 1

\* C14 witness: two first activations of one key ran concurrently (both
\* found no row) and both have returned; the key has its row.
C14_Witness ==
    \E b, c \in Callers :
        /\ b # c
        /\ sc[b].pc = "done" /\ sc[c].pc = "done"
        /\ sc[b].op = "activate" /\ sc[c].op = "activate"
        /\ sc[b].userId = sc[c].userId /\ sc[b].planType = sc[c].planType
        /\ sc[b].existing = <<>> /\ sc[c].existing = <<>>
        /\ Len(SubRows(sc[c].userId, sc[c].planType)) = 1

\* The events C15 is about, and the rejection it expects for each.
Rejectable(p) ==
    p.amount <= 0 \/ p.planType \notin {"monthly", "yearly", "lifetime"}

ExpectedRejection(p) ==
    IF p.amount <= 0 THEN "Amount must be positive" ELSE "Invalid plan type"

ValidationMessages == {"Amount must be positive", "Invalid plan type"}

\* The call has the user it works for: findUnique found it or create made it.
UserResolved(h) ==
    /\ pc[h] \in {"find_user", "create_user"}
    /\ pc'[h] \notin {"find_user", "create_user"}
    /\ result'[h].error # "P2002"

\* C15, as stated, implies that no delivery of an event with amount <= 0 or
\* an unknown planType is answered with success.
C15_EveryDeliveryRejected ==
    \A h \in Handlers :
        (Done(h) /\ Rejectable(payload[h])) => ~result[h].success

\* C15, amended: every delivery of such an event that gets past the dedup
\* gate and user resolution is rejected with the validation error, the
\* amount rule before the plan rule; no delivery of such an event starts the
\* transaction, creates a Payment or changes a Subscription; the only
\* success such an event is ever answered with is the duplicate answer.
C15_RejectedAtValidation ==
    \A h \in Handlers :
        (UserResolved(h) /\ Rejectable(payload[h]))
        => /\ pc'[h] = "done"
           /\ result'[h] = Failure(ExpectedRejection(payload[h]))
           /\ txStarts'[h] = 0

C15_RejectedWritesNothing ==
    \A h \in Handlers :
        (Stepped(h) /\ Rejectable(payload'[h]))
        => UNCHANGED <<payments, subs, upserts>>

C15_NeverInTransaction ==
    \A h \in Handlers :
        (pc[h] # "idle" /\ Rejectable(payload[h]))
        => /\ txStarts[h] = 0 /\ ~InTx(h)
           /\ result[h].success => result[h].isDuplicate

C15_ValidationRejects ==
    /\ [](C15_NeverInTransaction)
    /\ [][C15_RejectedAtValidation /\ C15_RejectedWritesNothing]_vars

\* C15 witness: an event with a zero amount and an unknown plan was rejected
\* for its amount, and an event with a positive amount and an unknown plan
\* for its plan.
C15_Witness ==
    \E g, h \in Handlers :
        /\ Done(g) /\ Done(h)
        /\ payload[g].amount <= 0
        /\ payload[g].planType \notin {"monthly", "yearly", "lifetime"}
        /\ result[g].error = "Amount must be positive"
        /\ payload[h].amount > 0
        /\ result[h].error = "Invalid plan type"
        /\ txStarts[g] = 0 /\ txStarts[h] = 0

PriceOf(plan) ==
    CASE plan = "monthly" -> 999
      [] plan = "yearly" -> 9999
      [] plan = "lifetime" -> 29999

Acceptable(p) ==
    p.amount > 0 /\ p.planType \in {"monthly", "yearly", "lifetime"}

\* C16: a price mismatch never blocks processing: a delivery of an event
\* with amount > 0 and a recognized plan that has its user starts the apply
\* transaction whatever the difference to the plan's price, is never
\* rejected by validation, and is answered with success when its
\* transaction commits.
C16_ReachesApply ==
    \A h \in Handlers :
        (UserResolved(h) /\ Acceptable(payload[h]))
        => pc'[h] = "tx_payment" /\ txStarts'[h] = 1

C16_CommitSucceeds ==
    \A h \in Handlers :
        (pc[h] = "tx_mark" /\ Stepped(h) /\ result'[h].error = "")
        => result'[h].success /\ ~result'[h].isDuplicate

C16_NeverRejected ==
    \A h \in Handlers :
        (Done(h) /\ Acceptable(payload[h]))
        => /\ result[h].error \in {"", "P2002", "Transaction failed"}
           /\ result[h].error = "" => result[h].success

C16_MismatchNeverBlocks ==
    /\ [](C16_NeverRejected)
    /\ [][C16_ReachesApply /\ C16_CommitSucceeds]_vars

\* C16 witness: an event priced far below its plan and one priced far above
\* have both been applied.
C16_Witness ==
    \E g, h \in Handlers :
        /\ Done(g) /\ Done(h)
        /\ Acceptable(payload[g]) /\ Acceptable(payload[h])
        /\ payload[g].amount + 100 < PriceOf(payload[g].planType)
        /\ payload[h].amount - 100 > PriceOf(payload[h].planType)
        /\ result[g].success /\ ~result[g].isDuplicate
        /\ result[h].success /\ ~result[h].isDuplicate
        /\ Status(Key(payload[g])) = "PROCESSED"
        /\ Status(Key(payload[h])) = "PROCESSED"

RejectedByValidation(h) ==
    Done(h) /\ result[h].error \in ValidationMessages

\* C17: validation runs after the WebhookEvent row was recorded: when it
\* rejects an event the row exists in status RECEIVED and stays exactly as
\* it is from then on, and the call ends with the validation error.
C17_RowIsReceived ==
    \A h \in Handlers :
        RejectedByValidation(h)
        => /\ Len(events[Key(payload[h])]) = 1
           /\ Status(Key(payload[h])) = "RECEIVED"
           /\ events[Key(payload[h])][1].processed_at = Never
           /\ ~result[h].success /\ ~result[h].isDuplicate

C17_RowStays ==
    \A h \in Handlers :
        RejectedByValidation(h)
        => /\ events'[Key(payload[h])] = events[Key(payload[h])]
           /\ result'[h] = result[h]

C17_Propagated ==
    \A h \in Handlers :
        (UserResolved(h) /\ validateWebhookBusinessLogic(payload[h]) # "")
        => /\ pc'[h] = "done"
           /\ result'[h].error = validateWebhookBusinessLogic(payload[h])
           /\ Status(Key(payload[h])) = "RECEIVED"
           /\ UNCHANGED events

C17_RejectedStaysReceived ==
    /\ [](C17_RowIsReceived)
    /\ [][C17_RowStays /\ C17_Propagated]_vars

\* C17 witness: an event was rejected by validation, and a later delivery of
\* it found the row, still RECEIVED.
C17_Witness ==
    \E g, h \in Handlers :
        /\ g # h
        /\ RejectedByValidation(g)
        /\ Done(h) /\ payload[h] = payload[g]
        /\ result[h].isDuplicate
        /\ Status(Key(payload[g])) = "RECEIVED"

\* The request of handler h passed the signature guard.
Authenticated(h) == http[h].stage \in {"invalid", "accepted", "responded"}

C18_AnsweredOnly200 ==
    \A h \in Handlers :
        /\ http[h].stage = "responded"
           => /\ http[h].status = 200
              /\ pc[h] = "done"
              /\ PassesValidationPipe(ParseJson(http[h].raw))
        /\ http[h].stage = "invalid" => http[h].status = 400

C18_RespondStep ==
    \A h \in Handlers :
        (http[h].stage = "accepted" /\ pc[h] = "done"
           /\ http'[h] # http[h])
        => /\ http'[h].stage = "responded"
           /\ http'[h].status = 200
           /\ UNCHANGED <<store, webhook>>

Verifies(signature, raw) ==
    /\ signature # NoSignature
    /\ signature = HmacSha256Hex(WebhookSecret, StringifyJson(ParseJson(raw)))

\* C19: a request whose signature is missing or does not verify is answered
\* 401, processWebhook is never invoked for it, and the step that rejects
\* it leaves the store and every processWebhook call as they are.
C19_RejectedNeverProcessed ==
    \A h \in Handlers :
        /\ (http[h].stage # "none"
              /\ ~Verifies(http[h].signature, http[h].raw))
           => /\ http[h].stage = "rejected" /\ http[h].status = 401
              /\ pc[h] = "idle" /\ payload[h] = NoPayload
              /\ ~wrote[h] /\ txStarts[h] = 0 /\ result[h] = NoResult
        /\ pc[h] # "idle" => Verifies(http[h].signature, http[h].raw)

C19_RejectionStep ==
    \A h \in Handlers :
        (http[h].stage = "none" /\ http'[h].stage = "rejected")
        => UNCHANGED <<store, webhook>>

C19_SignatureFirst ==
    [](C19_RejectedNeverProcessed) /\ [][C19_RejectionStep]_vars

\* C19 witness: a request with a signature made for another body was
\* rejected while the event it carries was being processed for a request
\* that verified.
C19_Witness ==
    \E g, h \in Handlers :
        /\ http[h].stage = "rejected" /\ http[h].status = 401
        /\ http[h].signature # NoSignature
        /\ Len(http[h].signature) = 64
        /\ pc[h] = "idle"
        /\ http[g].stage = "responded"
        /\ result[g].success

\* C20: canActivate returns true exactly when the header is present and
\* equals the hex HMAC-SHA256 of the body under the configured secret; in
\* every other case it throws UnauthorizedException (401) and nothing else.
C20_GuardFailsClosed ==
    \A h \in Handlers :
        http[h].stage # "none"
        => /\ (http[h].stage # "rejected")
                = Verifies(http[h].signature, http[h].raw)
           /\ http[h].stage = "rejected"
                => /\ http[h].status = 401
                   /\ http[h].message
                        \in {"Missing webhook signature",
                             "Invalid webhook signature",
                             "Invalid webhook signature format"}
           /\ http[h].status # 500

\* C20 witness: a request with a digest of the right length made with
\* another secret, and one with a value shorter than a digest, have both
\* been rejected; the second as a format failure.
C20_Witness ==
    \E g, h \in Handlers :
        /\ http[g].stage = "rejected"
        /\ http[g].signature = HmacSha256Hex(OtherSecret, http[g].raw)
        /\ http[g].message = "Invalid webhook signature"
        /\ http[h].stage = "rejected"
        /\ http[h].signature = ShortSignature
        /\ http[h].message = "Invalid webhook signature format"

\* C21: the signature is verified over the raw request body as sent: a
\* request is admitted exactly when its header is the hex HMAC-SHA256 of its
\* raw bytes under the configured secret, whatever their whitespace, and no
\* two different raw bodies are admitted under one signature.
C21_VerifiesRawBytes ==
    /\ \A h \in Handlers :
           http[h].stage # "none"
           => (http[h].stage # "rejected")
                = ( /\ http[h].signature # NoSignature
                    /\ http[h].signature
                         = HmacSha256Hex(WebhookSecret, http[h].raw) )
    /\ \A g, h \in Handlers :
           ( /\ http[g].stage \notin {"none", "rejected"}
             /\ http[h].stage \notin {"none", "rejected"}
             /\ http[g].signature = http[h].signature )
           => http[g].raw = http[h].raw

\* The call has the user it works for.
Resolved(h) ==
    \/ InTx(h)
    \/ Done(h) /\ (txStarts[h] > 0 \/ result[h].error \in ValidationMessages)

\* C22: identity resolution is find-or-create by exact email: no email ever
\* has more than one User row; a delivery that carries an email works for
\* the one row of exactly that email, and what it writes is owned by it;
\* the lookup of an email that has a row resolves to it and creates nothing;
\* a row is created only by a call whose email has none at that moment; and
\* no step removes a User row or changes one that exists.
C22_OneUserPerEmail ==
    /\ \A e \in DOMAIN users : users[e] = 1
    /\ \A h \in Handlers :
           (Resolved(h) /\ payload[h].email # NoEmail)
           => /\ email[h] = payload[h].email
              /\ UserRows(email[h]) = 1
              /\ tx[h].payment # <<>>
                 => tx[h].payment[1].user_id = UserId(payload[h].email)

C22_FindStep ==
    \A h \in Handlers :
        (pc[h] = "find_user" /\ Stepped(h) /\ payload[h].email # NoEmail)
        => /\ users' = users
           /\ email'[h] = payload[h].email
           /\ IF UserRows(payload[h].email) > 0
              THEN Resolved(h)'
              ELSE pc'[h] = "create_user"

C22_CreateStep ==
    \A h \in Handlers :
        (pc[h] = "create_user" /\ Stepped(h))
        => IF UserRows(email[h]) = 0
           THEN users' = (email[h] :> 1) @@ users /\ Resolved(h)'
           ELSE /\ users' = users
                /\ result'[h] = UniqueViolation("users")

C22_UsersOnlyGrow ==
    /\ \A e \in DOMAIN users : e \in DOMAIN users' /\ users'[e] = users[e]
    /\ users' # users
       => \E h \in Handlers :
              /\ pc[h] = "create_user" /\ Stepped(h)
              /\ UserRows(email[h]) = 0
              /\ DOMAIN users' = DOMAIN users \cup {email[h]}

C22_FindOrCreateByEmail ==
    /\ [](C22_OneUserPerEmail)
    /\ [][C22_FindStep /\ C22_CreateStep /\ C22_UsersOnlyGrow]_vars

\* C22 witness: two distinct events with one email were applied for the
\* same single user, the second delivery having found the row the first
\* created.
C22_Witness ==
    \E g, h \in Handlers :
        /\ g # h /\ Done(g) /\ Done(h)
        /\ Key(payload[g]) # Key(payload[h])
        /\ payload[g].email = payload[h].email
        /\ payload[g].email # NoEmail
        /\ result[g].success /\ ~result[g].isDuplicate
        /\ result[h].success /\ ~result[h].isDuplicate
        /\ users[payload[g].email] = 1
        /\ payments[payload[g].externalPaymentId][1].user_id
             = UserId(payload[g].email)
        /\ payments[payload[h].externalPaymentId][1].user_id
             = UserId(payload[g].email)

\* The delivery carries no email and passes the business validation.
ValidWithoutEmail(p) ==
    p.email = NoEmail /\ validateWebhookBusinessLogic(p) = ""

\* C23: an otherwise valid event with no email is processed successfully:
\* its user lookup finds nothing, its create adds a new User row under the
\* placeholder email synthesized for this delivery, and the Payment and the
\* Subscription it commits are owned by that user.
C23_PlaceholderUserCreated ==
    [][ \A h \in Handlers :
          /\ (pc[h] = "find_user" /\ Stepped(h)
                /\ ValidWithoutEmail(payload[h]))
             => /\ email'[h] = PlaceholderEmail(now)
                /\ pc'[h] = "create_user"
          /\ (pc[h] = "create_user" /\ Stepped(h)
                /\ ValidWithoutEmail(payload[h]))
             => /\ UserRows(email[h]) = 0
                /\ UserRows(email[h])' = 1
                /\ pc'[h] = "tx_payment"
          /\ (pc[h] = "tx_mark" /\ Stepped(h) /\ result'[h].success
                /\ ValidWithoutEmail(payload[h]))
             => /\ payments'[payload[h].externalPaymentId][1].user_id
                     = UserId(email[h])
                /\ SubRows(UserId(email[h]), payload[h].planType)' # <<>> ]_vars

\* C24: two concurrent deliveries of distinct events that both carry no
\* email work with two distinct placeholder emails, also when both read the
\* clock at the same instant; neither fails on the users index.
C24_DistinctPlaceholders ==
    \A g, h \in Handlers :
        ( /\ g # h
          /\ Key(payload[g]) # Key(payload[h])
          /\ payload[g].email = NoEmail /\ payload[h].email = NoEmail
          /\ email[g] # NoEmail /\ email[h] # NoEmail )
        => /\ email[g] # email[h]
           /\ result[h] # UniqueViolation("users")

\* C25: a duplicate delivery returns success=true, isDuplicate=true and the
\* paymentId of the existing Payment row of its event, the one the first,
\* fresh delivery of the event returned.
C25_DuplicateReturnsPaymentId ==
    \A g, h \in Handlers :
        ( /\ Done(g) /\ Done(h)
          /\ payload[g] = payload[h]
          /\ result[g].success /\ ~result[g].isDuplicate
          /\ result[h].isDuplicate )
        => /\ result[h].success
           /\ result[h].paymentId = result[g].paymentId
           /\ result[h].paymentId
                = payments[payload[h].externalPaymentId][1].id

\* C26: a delivery answered with success=true, isDuplicate=false has its
\* event PROCESSED, and the ids it returns are those of the Payment row its
\* transaction created for its user and of the Subscription row of that
\* user and plan, which is ACTIVE or was when the transaction committed.
C26_FreshResultIds ==
    \A h \in Handlers :
        (Done(h) /\ result[h].success /\ ~result[h].isDuplicate)
        => LET pid == payload[h].externalPaymentId
               u == UserId(email[h])
           IN  /\ Status(Key(payload[h])) = "PROCESSED"
               /\ txStarts[h] = 1
               /\ Len(payments[pid]) = 1
               /\ payments[pid][1].user_id = u
               /\ payments[pid][1].amount = payload[h].amount
               /\ result[h].paymentId = payments[pid][1].id
               /\ Len(SubRows(u, payload[h].planType)) = 1
               /\ result[h].subscriptionId
                    = SubRows(u, payload[h].planType)[1].id
               /\ result[h].paymentId # result[h].subscriptionId
               /\ result[h].error = ""

\* C26 witness: two events of one user and plan were applied; the second
\* upsert updated the row the first created, so both calls returned the
\* same subscriptionId and different paymentIds.
C26_Witness ==
    \E g, h \in Handlers :
        /\ g # h /\ Done(g) /\ Done(h)
        /\ result[g].success /\ ~result[g].isDuplicate
        /\ result[h].success /\ ~result[h].isDuplicate
        /\ email[g] = email[h]
        /\ payload[g].planType = payload[h].planType
        /\ result[g].subscriptionId = result[h].subscriptionId
        /\ result[g].paymentId # result[h].paymentId
        /\ result[h].paymentId
             = payments[payload[h].externalPaymentId][1].id

\* The transaction of handler h commits its upsert on key k in this step.
CommitsOn(h, k) ==
    /\ pc[h] = "tx_mark" /\ pc'[h] = "done" /\ result'[h].success
    /\ k = <<UserId(email[h]), payload[h].planType>>

\* C27: a Subscription's status or expires_at changes only in the commit of
\* the apply transaction, with the expiry the renewal calculation gives for
\* the row it replaces; no other operation changes either field.
C27_OnlyTransactionalApply ==
    [][ \A k \in DOMAIN subs :
          ( /\ subs[k] # <<>>
            /\ \/ subs'[k][1].status # subs[k][1].status
               \/ subs'[k][1].expires_at # subs[k][1].expires_at )
          => \E h \in Handlers :
                 /\ CommitsOn(h, k)
                 /\ subs'[k][1].expires_at
                      = newExpiryDate(subs[k], tx[h].at,
                                      getSubscriptionDuration(k[2])) ]_vars

\* Caller c runs cancelSubscription in this step.
Cancelling(c) == sc[c].pc = "idle" /\ sc'[c].op = "cancel"

\* C28: cancelSubscription(userId, planType) on an existing Subscription
\* sets its status to CANCELLED and changes nothing else: the key keeps its
\* one row with the same id, started_at and expires_at, every other row and
\* table is as before, and the call returns the row as stored.
C28_CancelSetsStatusOnly ==
    [][ \A c \in Callers :
          (Cancelling(c) /\ SubRows(sc'[c].userId, sc'[c].planType) # <<>>)
          => LET k == <<sc'[c].userId, sc'[c].planType>>
                 before == subs[k][1]
             IN  /\ DOMAIN subs' = DOMAIN subs
                 /\ \A j \in DOMAIN subs \ {k} : subs'[j] = subs[j]
                 /\ Len(subs'[k]) = Len(subs[k])
                 /\ subs'[k][1].status = "CANCELLED"
                 /\ subs'[k][1].id = before.id
                 /\ subs'[k][1].started_at = before.started_at
                 /\ subs'[k][1].expires_at = before.expires_at
                 /\ sc'[c].value = subs'[k]
                 /\ sc'[c].thrown = ""
                 /\ UNCHANGED <<events, users, payments, webhook>> ]_vars

\* C28 witness: a subscription that was ACTIVE with days left has been
\* cancelled and still has its expiry.
C28_Witness ==
    \E c \in Callers :
        /\ sc[c].pc = "done" /\ sc[c].op = "cancel"
        /\ sc[c].existing # <<>>
        /\ sc[c].existing[1].status = "ACTIVE"
        /\ sc[c].existing[1].expires_at > sc[c].at
        /\ sc[c].value[1].status = "CANCELLED"
        /\ sc[c].value[1].expires_at = sc[c].existing[1].expires_at
        /\ SubRows(sc[c].userId, sc[c].planType) = sc[c].value

\* C29: isSubscriptionActive(userId, planType) returns true if and only if
\* the key has a Subscription whose status is ACTIVE and whose expires_at is
\* set and strictly later than the time of the evaluation; it returns false
\* when expires_at equals that time.
C29_ActiveIffStrictlyFuture ==
    \A c \in Callers :
        (sc[c].pc = "done" /\ sc[c].op = "isActive")
        => sc[c].value
             = << /\ sc[c].existing # <<>>
                  /\ sc[c].existing[1].status = "ACTIVE"
                  /\ sc[c].existing[1].expires_at # Never
                  /\ sc[c].existing[1].expires_at > sc[c].at >>

\* The transaction of handler h fails in this step.
TxFails(h) ==
    InTx(h) /\ pc'[h] \notin {"tx_payment", "tx_subscription", "tx_mark"}
            /\ ~result'[h].success

\* C30: a failed transaction is never retried internally: a delivery starts
\* the apply transaction at most once; the step in which its transaction
\* fails ends the call with that error and nothing pending; a call that has
\* ended takes no further step; the controller answers without calling
\* processWebhook again; and a transaction only ever starts in a call that
\* a delivery started and that has just resolved its user.
C30_AtMostOneAttempt ==
    \A h \in Handlers :
        /\ txStarts[h] <= 1
        /\ InTx(h) => txStarts[h] = 1
        /\ (Done(h) /\ txStarts[h] = 1 /\ ~result[h].success)
           => /\ result[h].error \in {"Transaction failed", "P2002"}
              /\ tx[h] = NoTx

C30_FailureEndsCall ==
    \A h \in Handlers :
        /\ TxFails(h)
           => /\ pc'[h] = "done"
              /\ result'[h].error # ""
              /\ txStarts'[h] = txStarts[h]
              /\ tx'[h] = NoTx
        /\ Done(h)
           => /\ pc'[h] = "done"
              /\ result'[h] = result[h]
              /\ txStarts'[h] = txStarts[h]
        /\ txStarts'[h] # txStarts[h]
           => /\ pc[h] \in {"find_user", "create_user"}
              /\ txStarts[h] = 0
        /\ (http[h].stage = "accepted" /\ http'[h].stage = "responded")
           => UNCHANGED <<store, webhook>>

PaymentRowValid(row) ==
    /\ row.amount > 0
    /\ row.planType \in {"monthly", "yearly", "lifetime"}
    /\ row.status = "COMPLETED"

\* Handler h commits its transaction in this step.
Commits(h) == pc[h] = "tx_mark" /\ pc'[h] = "done" /\ result'[h].success

\* C31: every Payment row, stored or written by an open transaction, has
\* amount > 0, a planType in {monthly, yearly, lifetime} and status
\* COMPLETED; the payments table changes only in the step that commits a
\* transaction, by gaining the row that transaction created; and a row that
\* is there stays as it is.
C31_RowsValid ==
    /\ \A pid \in Pids :
           \A n \in 1..Len(payments[pid]) :
               PaymentRowValid([amount |-> payments[pid][n].amount,
                                planType |-> payments[pid][n].plan_type,
                                status |-> payments[pid][n].status])
    /\ \A h \in Handlers :
           tx[h].payment # <<>>
           => /\ InTx(h)
              /\ PaymentRowValid([amount |-> tx[h].payment[1].amount,
                                  planType |-> tx[h].payment[1].plan_type,
                                  status |-> tx[h].payment[1].status])

C31_RowsImmutable ==
    \A pid \in Pids :
        /\ Len(payments'[pid]) >= Len(payments[pid])
        /\ SubSeq(payments'[pid], 1, Len(payments[pid])) = payments[pid]
        /\ payments'[pid] # payments[pid]
           => \E h \in Handlers :
                  /\ Commits(h)
                  /\ payload[h].externalPaymentId = pid
                  /\ payments'[pid] = payments[pid] \o tx[h].payment

C31_PaymentRows ==
    [](C31_RowsValid) /\ [][C31_RowsImmutable]_vars

\* C31 witness: a Payment of 1 for the yearly plan is stored, and a delivery
\* with amount 0 that came after it has been rejected and left it alone.
C31_Witness ==
    \E g, h \in Handlers :
        /\ g < h /\ Done(g) /\ Done(h)
        /\ result[g].success /\ ~result[g].isDuplicate
        /\ payload[g].amount = 1
        /\ payments[payload[g].externalPaymentId][1].amount = 1
        /\ payload[h].amount = 0
        /\ result[h].error = "Amount must be positive"
        /\ payments[payload[h].externalPaymentId] = <<>>

\* The bodies that fail the payload-shape validation: a required property
\* missing, a negative amount, a malformed email, an undeclared property.
ShapeFailures == {RawNoId, RawNoType, RawNegative, RawBadEmail, RawExtra}

\* C32: an authenticated request whose body fails the payload-shape
\* validation is answered 400 and processWebhook is never invoked for it:
\* its handler starts no call, and the step that answers it leaves the
\* store (no WebhookEvent row, no other write) and every call as they are.
C32_InvalidNeverProcessed ==
    \A h \in Handlers :
        ( /\ http[h].stage # "none"
          /\ Verifies(http[h].signature, http[h].raw)
          /\ http[h].raw \in ShapeFailures )
        => /\ http[h].stage = "invalid"
           /\ http[h].status = 400
           /\ pc[h] = "idle" /\ payload[h] = NoPayload
           /\ ~wrote[h] /\ txStarts[h] = 0 /\ result[h] = NoResult

C32_InvalidStep ==
    \A h \in Handlers :
        (http[h].stage = "none" /\ http'[h].stage = "invalid")
        => UNCHANGED <<store, webhook>>

C33_WritesSoFar ==
    \A h \in Handlers :
        /\ pc[h] = "tx_payment" => tx[h] = NoTx
        /\ pc[h] = "tx_subscription"
           => tx[h].payment # <<>> /\ tx[h].sub = <<>>
        /\ pc[h] = "tx_mark" => tx[h].payment # <<>> /\ tx[h].sub # <<>>
        /\ ~InTx(h) => tx[h] = NoTx
        /\ InTx(h) => Status(Key(payload[h])) = "RECEIVED"

C33_StepOrder ==
    /\ \A k \in Keys :
           (Status(k)' = "PROCESSED" /\ Status(k) # "PROCESSED")
           => \E h \in Handlers :
                  pc[h] = "tx_mark" /\ Stepped(h) /\ Key(payload[h]) = k
    /\ \A h \in Handlers :
        /\ (pc[h] = "tx_payment" /\ Stepped(h))
           => /\ pc'[h] \in {"tx_subscription", "done"}
              /\ pc'[h] = "done" => ~result'[h].success
              /\ UNCHANGED store
        /\ (pc[h] = "tx_subscription" /\ Stepped(h))
           => /\ pc'[h] \in {"tx_mark", "done"}
              /\ pc'[h] = "done" => ~result'[h].success
              /\ pc'[h] = "tx_mark" => tx'[h].payment = tx[h].payment
              /\ UNCHANGED store
        /\ (pc[h] = "tx_mark" /\ Stepped(h))
           => /\ pc'[h] = "done"
              /\ result'[h].success
                 => /\ Status(Key(payload[h]))' = "PROCESSED"
                    /\ payments'[payload[h].externalPaymentId]
                         = payments[payload[h].externalPaymentId]
                             \o tx[h].payment
                    /\ SubRows(UserId(email[h]), payload[h].planType)'
                         = tx[h].sub

C33_ApplyOrder ==
    [](C33_WritesSoFar) /\ [][C33_StepOrder]_vars

\* C33 witness: one transaction is about to upsert, having written only its
\* Payment, while another is about to mark its event, which is still
\* RECEIVED.
C33_Witness ==
    \E g, h \in Handlers :
        /\ pc[g] = "tx_subscription"
        /\ tx[g].payment # <<>> /\ tx[g].sub = <<>>
        /\ pc[h] = "tx_mark"
        /\ tx[h].payment # <<>> /\ tx[h].sub # <<>>
        /\ Status(Key(payload[h])) = "RECEIVED"
        /\ payments[payload[h].externalPaymentId] = <<>>

EventRecorded(h) == events[Key(payload[h])] # <<>>

\* C34: a non-duplicate delivery goes through dedup lookup, WebhookEvent
\* create as RECEIVED, user find-or-create, business validation and the
\* apply transaction, in this order: a call that has not created its event
\* row has written nothing; a call resolving its user has its event
\* recorded and no transaction; a call in its transaction has its event
\* recorded, its user stored and a payload that passes validation.
C34_PositionImplies ==
    \A h \in Handlers :
        /\ pc[h] \in {"idle", "create_event"}
           => ~wrote[h] /\ txStarts[h] = 0 /\ email[h] = NoEmail
        /\ pc[h] \in {"find_user", "create_user"}
           => EventRecorded(h) /\ txStarts[h] = 0 /\ tx[h] = NoTx
        /\ pc[h] = "create_user" => email[h] # NoEmail
        /\ InTx(h)
           => /\ EventRecorded(h)
              /\ UserRows(email[h]) = 1
              /\ validateWebhookBusinessLogic(payload[h]) = ""
              /\ txStarts[h] = 1
        /\ (Done(h) /\ txStarts[h] > 0)
           => validateWebhookBusinessLogic(payload[h]) = ""
        /\ wrote[h] => EventRecorded(h)

C34_StepsInOrder ==
    /\ \A h \in Handlers :
           /\ Started(h) => pc'[h] \in {"create_event", "done"}
           /\ (Started(h) /\ pc'[h] = "done") => result'[h].isDuplicate
           /\ (pc[h] = "create_event" /\ Stepped(h))
              => /\ pc'[h] \in {"find_user", "done"}
                 /\ UNCHANGED <<users, payments, subs>>
           /\ (pc[h] = "find_user" /\ Stepped(h))
              => /\ pc'[h] \in {"create_user", "tx_payment", "done"}
                 /\ pc'[h] = "tx_payment" => UserRows(email'[h]) = 1
                 /\ UNCHANGED store
           /\ (pc[h] = "create_user" /\ Stepped(h))
              => /\ pc'[h] \in {"tx_payment", "done"}
                 /\ UNCHANGED <<events, payments, subs>>
    /\ users' # users
       => \E h \in Handlers :
              pc[h] = "create_user" /\ Stepped(h) /\ EventRecorded(h)

C34_ProcessingOrder ==
    [](C34_PositionImplies) /\ [][C34_StepsInOrder]_vars

\* C34 witness: a delivery was rejected by validation after its event row
\* and its user were created, without a transaction; another one is in its
\* transaction.
C34_Witness ==
    \E g, h \in Handlers :
        /\ Done(g) /\ result[g].error \in ValidationMessages
        /\ EventRecorded(g) /\ UserRows(email[g]) = 1
        /\ txStarts[g] = 0
        /\ InTx(h) /\ txStarts[h] = 1

\* C35: every WebhookEvent row is created RECEIVED without processed_at;
\* the only change a row ever undergoes is RECEIVED to PROCESSED with
\* processed_at set, in the step that commits the transaction of its
\* event; a PROCESSED row never changes; no row is FAILED; no row is
\* deleted.
C35_RowStates ==
    \A k \in Keys :
        \A n \in 1..Len(events[k]) :
            /\ events[k][n].status \in {"RECEIVED", "PROCESSED"}
            /\ (events[k][n].status = "RECEIVED")
                 = (events[k][n].processed_at = Never)

C35_RowSteps ==
    \A k \in Keys :
        \/ events'[k] = events[k]
        \/ /\ events[k] = <<>>
           /\ Len(events'[k]) = 1
           /\ events'[k][1].status = "RECEIVED"
           /\ events'[k][1].processed_at = Never
           /\ \E h \in Handlers :
                  /\ pc[h] = "create_event" /\ pc'[h] = "find_user"
                  /\ Key(payload[h]) = k
        \/ /\ Len(events[k]) = 1 /\ Len(events'[k]) = 1
           /\ events[k][1].status = "RECEIVED"
           /\ events'[k][1] = [events[k][1] EXCEPT !.status = "PROCESSED",
                                                   !.processed_at = now]
           /\ \E h \in Handlers : Commits(h) /\ Key(payload[h]) = k

C35_EventLifecycle ==
    [](C35_RowStates) /\ [][C35_RowSteps]_vars

\* C35 witness: one event was PROCESSED after the clock had advanced, and
\* another is RECEIVED after its transaction failed.
C35_Witness ==
    \E g, h \in Handlers :
        /\ Done(g) /\ Done(h)
        /\ Status(Key(payload[g])) = "PROCESSED"
        /\ events[Key(payload[g])][1].processed_at > 0
        /\ result[h].error = "Transaction failed"
        /\ Status(Key(payload[h])) = "RECEIVED"
        /\ events[Key(payload[h])][1].processed_at = Never

ProcessedEventsOf(pid) ==
    { k \in Keys : k[1] = pid /\ Status(k) = "PROCESSED" }

\* C36: in every reachable state, an event is PROCESSED only if the one
\* Payment row of its externalPaymentId exists and the Subscription of that
\* payment's user and plan exists, ACTIVE since the commit, for a user that
\* has one row; and a Payment row exists only if exactly one event of its
\* externalPaymentId is PROCESSED.
C36_CrossTable ==
    /\ \A k \in Keys :
           Status(k) = "PROCESSED"
           => /\ Len(payments[k[1]]) = 1
              /\ LET p == payments[k[1]][1]
                     s == SubRows(p.user_id, p.plan_type)
                 IN  /\ Len(s) = 1
                     /\ s[1].status = "ACTIVE"
                     /\ UserRows(CHOOSE e \in DOMAIN users :
                                     UserId(e) = p.user_id) = 1
    /\ \A pid \in Pids :
           payments[pid] # <<>>
           => Cardinality(ProcessedEventsOf(pid)) = 1

\* C36 witness: both events of one payment were delivered concurrently; one
\* is PROCESSED with the payment's only row, the other failed on the payments
\* index and is RECEIVED.
C36_Witness ==
    \E g, h \in Handlers :
        /\ Done(g) /\ Done(h)
        /\ payload[g].externalPaymentId = payload[h].externalPaymentId
        /\ payload[g].eventType # payload[h].eventType
        /\ Status(Key(payload[g])) = "PROCESSED"
        /\ Status(Key(payload[h])) = "RECEIVED"
        /\ result[h] = UniqueViolation("payments")
        /\ Len(payments[payload[g].externalPaymentId]) = 1

\* The payment of the delivery handled by h has its row, written by the
\* other event of that payment.
PaidUnderSibling(h) ==
    /\ payload[h] # NoPayload
    /\ payments[payload[h].externalPaymentId] # <<>>
    /\ \E k \in Keys :
           /\ k[1] = payload[h].externalPaymentId
           /\ k[2] # payload[h].eventType
           /\ Status(k) = "PROCESSED"

\* The transaction of h reaches tx.payment.create for a payment whose row
\* exists: it fails with P2002 on the payments index and writes nothing.
C37_SiblingFails ==
    \A h \in Handlers :
        /\ pc[h] = "tx_payment"
        /\ PaidUnderSibling(h)
        /\ Stepped(h)
        /\ result'[h] # Failure("Transaction failed")
        => /\ pc'[h] = "done"
           /\ result'[h] = UniqueViolation("payments")
           /\ tx'[h] = NoTx
           /\ UNCHANGED <<store, upserts>>
           /\ Status(Key(payload[h])) = "RECEIVED"

\* The event of a payment recorded under its other event type stays RECEIVED
\* and the payment keeps its one row, applied once.
C37_StaysReceived ==
    \A k \in Keys :
        /\ Status(k) = "RECEIVED"
        /\ payments[k[1]] # <<>>
        => /\ Status(k)' = "RECEIVED"
           /\ payments'[k[1]] = payments[k[1]]
           /\ upserts'[k] = 0

\* A delivery of an event whose row exists answers as a duplicate and
\* touches nothing.
C37_RedeliveryIsDuplicate ==
    \A h \in Handlers :
        /\ pc[h] = "idle"
        /\ Stepped(h)
        /\ events[Key(payload'[h])] # <<>>
        => /\ pc'[h] = "done"
           /\ result'[h].success
           /\ result'[h].isDuplicate
           /\ UNCHANGED <<store, upserts>>

\* C37: an event whose externalPaymentId has a Payment row recorded under
\* the other eventType fails in its transaction with the uniqueness
\* violation on payments and rolls back: no second Payment row, no second
\* subscription write, its WebhookEvent row stays RECEIVED, and every later
\* delivery of the same (externalPaymentId, eventType) is answered as a
\* duplicate.
C37_SiblingEventRollsBack ==
    /\ [](\A pid \in Pids : Len(payments[pid]) <= 1)
    /\ [][C37_SiblingFails]_vars
    /\ [][C37_StaysReceived]_vars
    /\ [][C37_RedeliveryIsDuplicate]_vars

\* C37 witness: payment.failed of pay_1 arrived after payment.success had
\* been processed, failed on the payments index, and its redelivery was
\* answered as a duplicate with the row still RECEIVED.
C37_Witness ==
    \E g, h \in Handlers :
        /\ g # h
        /\ Done(g) /\ Done(h)
        /\ payload[g] = payload[h]
        /\ result[g] = UniqueViolation("payments")
        /\ result[h].success /\ result[h].isDuplicate
        /\ PaidUnderSibling(h)
        /\ Status(Key(payload[h])) = "RECEIVED"
        /\ upserts[Key(payload[h])] = 0
        /\ Len(payments[payload[h].externalPaymentId]) = 1

\* C38: of two concurrent deliveries of events of distinct payments that
\* carry the same email, neither ends with the uniqueness violation on users and its
\* WebhookEvent row RECEIVED; the email has one User row.
C38_FindOrCreateSafe ==
    \A g, h \in Handlers :
        ( /\ g # h
          /\ payload[g] # NoPayload /\ payload[h] # NoPayload
          /\ payload[g].externalPaymentId # payload[h].externalPaymentId
          /\ payload[h].email # NoEmail
          /\ payload[g].email = payload[h].email
          /\ Done(h) )
        => /\ UserRows(payload[h].email) <= 1
           /\ ~( /\ result[h] = UniqueViolation("users")
                 /\ Status(Key(payload[h])) = "RECEIVED" )

\* No cancelSubscription call has been made.
OnlyRenewals == \A c \in Callers : sc[c].op # "cancel"

ExpiresAt(u, plan) ==
    IF SubRows(u, plan) = <<>> THEN Never ELSE SubRows(u, plan)[1].expires_at

\* A processWebhook call commits the upsert it made at this clock reading
\* on the row as it still is; an activateOrExtendSubscription call that read
\* the row as it still is returns from its upsert.
C39_WebhookRenewal ==
    \A h \in Handlers :
        /\ Commits(h)
        /\ tx[h].sub =
             <<UpsertedSubscription(
                   SubRows(UserId(email[h]), payload[h].planType),
                   UserId(email[h]), payload[h].planType, now)>>
        => ExpiresAt(UserId(email[h]), payload[h].planType)'
             >= ExpiresAt(UserId(email[h]), payload[h].planType)

C39_ServiceRenewal ==
    \A c \in Callers :
        /\ sc[c].pc = "upsert"
        /\ sc'[c].pc = "done"
        /\ sc[c].existing = SubRows(sc[c].userId, sc[c].planType)
        => ExpiresAt(sc[c].userId, sc[c].planType)'
             >= ExpiresAt(sc[c].userId, sc[c].planType)

\* C39: in any sequence of processWebhook and activateOrExtendSubscription
\* operations on one (user, planType), with a clock that never goes back,
\* each successful renewal leaves expires_at at least what it was before.
C39_RenewalNeverShortens ==
    [][ OnlyRenewals' => C39_WebhookRenewal /\ C39_ServiceRenewal ]_vars

\* The one delivery made so far, handled by h, was rejected by the business
\* validation or failed in its transaction.
OnlyDeliveryFailed(h) ==
    /\ Done(h)
    /\ \A g \in Handlers \ {h} : pc[g] = "idle"
    /\ result[h].error \in
         {"Amount must be positive", "Invalid plan type", "Transaction failed"}

\* C40: a delivery that ends in a validation failure or a transaction
\* failure leaves nothing but its RECEIVED WebhookEvent row: no User row it
\* created remains, and Payments and Subscriptions are as before.
C40_FailureLeavesNoTrace ==
    \A h \in Handlers :
        OnlyDeliveryFailed(h)
        => /\ Status(Key(payload[h])) = "RECEIVED"
           /\ users = <<>>
           /\ \A pid \in Pids : payments[pid] = <<>>
           /\ subs = <<>>

====
